---- MODULE Spec2Model ----
(***************************************************************************)
(* A model of cbdb's remote-sync core: the metadata.db download and its    *)
(* temp-file-then-rename write (DropboxSync.sync and                       *)
(* DropboxAPI.sync_metadata_db), the staleness check                       *)
(* (DropboxSync.needs_sync), the path containment of the filesystem store  *)
(* (LocalStorageAPI) and the library-path validators.                      *)
(*                                                                         *)
(* Byte strings are sequences of byte values, text strings are sequences   *)
(* of one-character strings, and the filesystem is a directory of names    *)
(* pointing at inodes, so that truncation through a shared name and a      *)
(* rename under an open descriptor behave as they do on POSIX.             *)
(***************************************************************************)
EXTENDS Integers, Sequences, FiniteSets, TLC

VARIABLES
    \* ---- local filesystem and the sync calls
    ino,        \* inode id -> bytes of the file (<<>> when the inode is free)
    dir,        \* "local" / "tmp" -> inode id, or None when the name is absent
    pc,         \* per sync call: position in sync
    variant,    \* per sync call: "link" (DropboxSync.sync) or "api" (sync_metadata_db)
    content,    \* per sync call: the downloaded bytes
    fd,         \* per sync call: inode of the open temp file, or None
    off,        \* per sync call: write offset of the open temp file
    fault,      \* per sync call: the kind of exception raised, or "none"
    sent,       \* per sync call: download requests sent by the call so far
    installed,  \* history: bytes put in place by the latest os.replace (<<>> if none)
    \* ---- a reader of the local database (CalibreDB.get_connection)
    rpc, rfd, roff, rbuf, rsnap,
    \* ---- the staleness check (DropboxSync.needs_sync)
    lstat,      \* stat of the local file: [exists, size, mtime]
    tzoff,      \* UTC offset of the server process's local time
    head,       \* what a HEAD request on the shared link answers now
    npc,        \* position in needs_sync
    nremote,    \* needs_sync's remote_modified: None, or the parsed header
    nres,       \* needs_sync's return value
    heads,      \* HEAD requests sent by the current needs_sync call
    lastEvent,  \* history: the latest thing that happened outside needs_sync
    \* ---- the filesystem store (LocalStorageAPI)
    pbase,      \* self.base_path
    pin,        \* the path of the latest call
    pout,       \* the latest call and its outcome
    \* ---- the Dropbox client (DropboxAPI)
    store,      \* the remote store: top-level name -> what is there
    vpc,        \* position in validate_library_path
    vlib,       \* validate_library_path: the normalized library path
    vfolders,   \* validate_library_path: the folders of the root listing
    vsugg,      \* validate_library_path: suggestions
    vout,       \* validate_library_path: the outcome
    vlog,       \* history: the responses the call got (primary, listing, probes)
    gresp,      \* get_metadata: the response of the latest call
    gout,       \* get_metadata: "idle", or the latest call's outcome
    \* ---- DropboxAPI.download_file
    dpath,      \* the path of the latest call
    dresp,      \* the response the call got
    dout,       \* "idle", or the latest call's outcome
    \* ---- the catalog (CalibreDB)
    db,         \* the database file: its tables and its books
    cpc,        \* "idle", "list" / "search" (a client paging through), "aux", "done"
    cargs,      \* the arguments of the call under way
    cpages,     \* the pages fetched so far, in order
    clog,       \* get_book_detail: the queries executed so far
    cout,       \* get_book_detail: the outcome
    \* ---- the fixture generator (generate_fixtures)
    fpc,        \* "generating", or "done" once create_database has run
    fbooks,     \* books_data: the books generated so far
    \* ---- the web application (app.py)
    APP_PASSWORD,  \* the password the process was started with, stripped
    apc,        \* "idle", "auth" (in require_auth), "handler" (in the route), "done"
    areq,       \* the request being served
    aresp,      \* the response, and the exception raised on the way to it
    arun,       \* whether the route handler was entered
    acalls,     \* calls made to the storage API while serving the request
    apassed,    \* the paths passed to get_thumbnails_batch
    \* ---- DropboxSync: the constructor and _get_download_url
    lpc,        \* "none", "rejected" (ValueError), "made" (constructed), "url"
    shared_link,   \* self.shared_link
    lurl        \* what _get_download_url returned

syncVars == <<ino, dir, pc, variant, content, fd, off, fault, sent, installed>>
readVars == <<rpc, rfd, roff, rbuf, rsnap>>
needVars == <<lstat, tzoff, head, npc, nremote, nres, heads, lastEvent>>
pathVars == <<pbase, pin, pout>>
dropVars == <<store, vpc, vlib, vfolders, vsugg, vout, vlog, gresp, gout>>
dlVars == <<dpath, dresp, dout>>
coreVars == <<syncVars, readVars, needVars, pathVars, dropVars>>
catVars == <<db, cpc, cargs, cpages, clog, cout>>
fixVars == <<fpc, fbooks>>
appVars == <<APP_PASSWORD, apc, areq, aresp, arun, acalls, apassed>>
linkVars == <<lpc, shared_link, lurl>>
moreVars == <<dlVars, catVars, fixVars, appVars, linkVars>>
vars == <<coreVars, moreVars>>

\* What the steps of one part of the program leave alone.
offFiles == <<needVars, pathVars, dropVars, moreVars>>
offNeed == <<syncVars, readVars, pathVars, dropVars, moreVars>>
offPath == <<syncVars, readVars, needVars, dropVars, moreVars>>
offDropbox == <<syncVars, readVars, needVars, pathVars, moreVars>>
offDownload ==
    <<syncVars, readVars, needVars, pathVars, vpc, vlib, vfolders, vsugg, vout, vlog, gresp, gout,
      catVars, fixVars, appVars, linkVars>>
offCatalog == <<coreVars, dlVars, fixVars, appVars, linkVars>>
offFixture == <<coreVars, dlVars, cpc, cargs, cpages, clog, cout, appVars, linkVars>>
offApp == <<coreVars, dlVars, catVars, fixVars, linkVars>>
offLink == <<coreVars, dlVars, catVars, fixVars, appVars>>

\* Python's None / a name os.path.exists reports absent (inode ids start at 1).
None == 0

(***************************************************************************)
(* Bytes                                                                   *)
(***************************************************************************)

\* b"SQLite format 3\x00"
SQLITE_MAGIC == <<83, 81, 76, 105, 116, 101, 32, 102, 111, 114, 109, 97, 116, 32, 51, 0>>

\* b'PK\x03\x04'
ZIP_SIGNATURE == <<80, 75, 3, 4>>

\* len(content) < 100
MinSize == 100

\* How far past MinSize the longest modelled download goes.
ExtraLen == 30

\* Bytes moved by one write or read system call.
ChunkSize == 64

Min(a, b) == IF a < b THEN a ELSE b
Max(a, b) == IF a > b THEN a ELSE b

\* bytes.startswith
StartsWith(s, prefix) ==
    /\ Len(s) >= Len(prefix)
    /\ \A i \in 1..Len(prefix) : s[i] = prefix[i]

\* The signature with its final NUL replaced: 16 bytes that are not the signature.
BadMagic == [SQLITE_MAGIC EXCEPT ![Len(SQLITE_MAGIC)] = 1]

Pad(prefix, n, fill) == [i \in 1..n |-> IF i <= Len(prefix) THEN prefix[i] ELSE fill]

\* The bodies a download can return: every prefix, cut or padded to every length.
Prefixes == {SQLITE_MAGIC, BadMagic, ZIP_SIGNATURE, <<>>}
Lengths == {0, 15, 16, MinSize - 1, MinSize, MinSize + ExtraLen}
Fills == {7, 9}
Contents == {Pad(p, n, f) : p \in Prefixes, n \in Lengths, f \in Fills}

\* The bodies of the two-call runs: two databases of different length and filling,
\* and a body that is no database.
RaceContents ==
    {Pad(SQLITE_MAGIC, MinSize, 7), Pad(SQLITE_MAGIC, MinSize + ExtraLen, 9),
     Pad(BadMagic, MinSize, 7)}

(***************************************************************************)
(* The filesystem                                                          *)
(***************************************************************************)

Syncers == {1, 2}
InodeIds == 1..(Cardinality(Syncers) + 3)

\* temp_path = local_path + ".tmp"
TempPathInPlace == "local"
TempPath == "tmp"

Refs(d, fds, r) == {d["local"], d["tmp"], r} \cup {fds[p] : p \in Syncers}

\* An inode nothing names and nothing holds open is gone.
Collect(i, d, fds, r) == [n \in InodeIds |-> IF n \in Refs(d, fds, r) THEN i[n] ELSE <<>>]

FreshInode(d, fds, r) == CHOOSE n \in InodeIds :
    /\ n \notin Refs(d, fds, r)
    /\ \A m \in InodeIds : m \notin Refs(d, fds, r) => n <= m

\* write(2) at an offset: bytes past the old end are filled with zeros.
WriteAt(data, o, chunk) ==
    [i \in 1..Max(Len(data), o + Len(chunk)) |->
        IF i > o /\ i <= o + Len(chunk) THEN chunk[i - o]
        ELSE IF i <= Len(data) THEN data[i] ELSE 0]

\* os.replace: rename(2); renaming a name onto itself changes nothing.  And a copy
\* in its place, which leaves the source name.
RenameKeepsSource(d, src, dst) == [d EXCEPT ![dst] = d[src]]
Rename(d, src, dst) ==
    IF src = dst THEN d ELSE [d EXCEPT ![dst] = d[src], ![src] = None]

\* What a stat of the local path shows.
LocalExists == dir["local"] # None
LocalBytes == ino[dir["local"]]


(***************************************************************************)
(* sync: DropboxSync.sync ("link") and DropboxAPI.sync_metadata_db ("api") *)
(***************************************************************************)

Variants == {"link", "api"}

\* content.startswith(b"SQLite format 3\x00")
HasSQLiteHeaderFirst15(c) == StartsWith(c, SubSeq(SQLITE_MAGIC, 1, 15))
HasSQLiteHeader(c) == StartsWith(c, SQLITE_MAGIC)

\* The checks with the ZIP diagnosis placed after the generic raise, out of reach.
ValidationFaultZipUnreachable(v, c) ==
    IF v = "link" /\ Len(c) < MinSize THEN "too_small"
    ELSE IF ~HasSQLiteHeader(c) THEN "invalid"
    ELSE "none"

\* The checks between the download and the write: the fault raised, or "none".
\* Only DropboxSync.sync has the size check and the ZIP diagnosis.
ValidationFault(v, c) ==
    IF v = "link" /\ Len(c) < MinSize THEN "too_small"
    ELSE IF ~HasSQLiteHeader(c) THEN
        IF v = "link" /\ StartsWith(c, ZIP_SIGNATURE) THEN "zip" ELSE "invalid"
    ELSE "none"

SyncInit ==
    /\ ino = [n \in InodeIds |-> <<>>]
    /\ dir = [n \in {"local", "tmp"} |-> None]
    /\ pc = [p \in Syncers |-> "idle"]
    /\ variant = [p \in Syncers |-> "link"]
    /\ content = [p \in Syncers |-> <<>>]
    /\ fd = [p \in Syncers |-> None]
    /\ off = [p \in Syncers |-> 0]
    /\ fault = [p \in Syncers |-> "none"]
    /\ sent = [p \in Syncers |-> 0]
    /\ installed = <<>>

\* requests.get / download_file returned a body.
Download(p, bodies) ==
    /\ pc[p] = "idle"
    /\ \E v \in Variants, c \in bodies :
        /\ variant' = [variant EXCEPT ![p] = v]
        /\ content' = [content EXCEPT ![p] = c]
    /\ pc' = [pc EXCEPT ![p] = "downloaded"]
    /\ fault' = [fault EXCEPT ![p] = "none"]
    /\ sent' = [sent EXCEPT ![p] = @ + 1]
    /\ UNCHANGED <<ino, dir, fd, off, installed, readVars>>
    /\ UNCHANGED offFiles

\* Where a failed request takes the call: the except clause raises to the caller.
AfterFailedRequestRetry == "idle"
AfterFailedRequest == "raised"

\* The request failed (timeout, connection, HTTP error status): sync raises.
DownloadFails(p) ==
    /\ pc[p] = "idle"
    /\ \E v \in Variants : variant' = [variant EXCEPT ![p] = v]
    /\ content' = [content EXCEPT ![p] = <<>>]
    /\ pc' = [pc EXCEPT ![p] = AfterFailedRequest]
    /\ fault' = [fault EXCEPT ![p] = "transport"]
    /\ sent' = [sent EXCEPT ![p] = @ + 1]
    /\ UNCHANGED <<ino, dir, fd, off, installed, readVars>>
    /\ UNCHANGED offFiles

Validate(p) ==
    /\ pc[p] = "downloaded"
    /\ LET f == ValidationFault(variant[p], content[p]) IN
        /\ fault' = [fault EXCEPT ![p] = f]
        /\ pc' = [pc EXCEPT ![p] = IF f = "none" THEN "open" ELSE "raised"]
    /\ UNCHANGED <<ino, dir, variant, content, fd, off, sent, installed, readVars>>
    /\ UNCHANGED offFiles

\* open(temp_path, 'wb'): create the file, or truncate the one the name points at.
OpenTemp(p) ==
    /\ pc[p] = "open"
    /\ LET i == IF dir[TempPath] = None THEN FreshInode(dir, fd, rfd) ELSE dir[TempPath]
           d == [dir EXCEPT ![TempPath] = i]
           fds == [fd EXCEPT ![p] = i]
       IN  /\ dir' = d
           /\ fd' = fds
           /\ ino' = Collect([ino EXCEPT ![i] = <<>>], d, fds, rfd)
    /\ off' = [off EXCEPT ![p] = 0]
    /\ pc' = [pc EXCEPT ![p] = "write"]
    /\ UNCHANGED <<variant, content, fault, sent, installed, readVars>>
    /\ UNCHANGED offFiles

\* f.write(content), one system call's worth at a time.
WriteChunk(p) ==
    /\ pc[p] = "write"
    /\ off[p] < Len(content[p])
    /\ LET n == Min(ChunkSize, Len(content[p]) - off[p])
           chunk == SubSeq(content[p], off[p] + 1, off[p] + n)
       IN  /\ ino' = [ino EXCEPT ![fd[p]] = WriteAt(ino[fd[p]], off[p], chunk)]
           /\ off' = [off EXCEPT ![p] = off[p] + n]
    /\ UNCHANGED <<dir, pc, variant, content, fd, fault, sent, installed, readVars>>
    /\ UNCHANGED offFiles

\* f.flush(); os.fsync(f.fileno()); leaving the with block closes the file.
CloseTemp(p) ==
    /\ pc[p] = "write"
    /\ off[p] = Len(content[p])
    /\ LET fds == [fd EXCEPT ![p] = None] IN
        /\ fd' = fds
        /\ ino' = Collect(ino, dir, fds, rfd)
    /\ pc' = [pc EXCEPT ![p] = "replace"]
    /\ UNCHANGED <<dir, variant, content, off, fault, sent, installed, readVars>>
    /\ UNCHANGED offFiles

\* os.replace(temp_path, local_path); FileNotFoundError when the temp name is gone.
Replace(p) ==
    /\ pc[p] = "replace"
    /\ IF dir[TempPath] = None
       THEN /\ pc' = [pc EXCEPT ![p] = "raised"]
            /\ fault' = [fault EXCEPT ![p] = "replace"]
            /\ UNCHANGED <<ino, dir, installed>>
       ELSE LET d == Rename(dir, TempPath, "local") IN
            /\ dir' = d
            /\ ino' = Collect(ino, d, fd, rfd)
            /\ installed' = content[p]
            /\ pc' = [pc EXCEPT ![p] = "done"]
            /\ UNCHANGED fault
    /\ UNCHANGED <<variant, content, fd, off, sent, readVars>>
    /\ UNCHANGED offFiles

\* The call is over (returned or raised); the worker takes the next request.
Return(p) ==
    /\ pc[p] \in {"done", "raised"}
    /\ pc' = [pc EXCEPT ![p] = "idle"]
    /\ variant' = [variant EXCEPT ![p] = "link"]
    /\ content' = [content EXCEPT ![p] = <<>>]
    /\ off' = [off EXCEPT ![p] = 0]
    /\ fault' = [fault EXCEPT ![p] = "none"]
    /\ sent' = [sent EXCEPT ![p] = 0]
    /\ UNCHANGED <<ino, dir, fd, installed, readVars>>
    /\ UNCHANGED offFiles

SyncStep(p, bodies) ==
    \/ Download(p, bodies)
    \/ DownloadFails(p)
    \/ Validate(p)
    \/ OpenTemp(p)
    \/ WriteChunk(p)
    \/ CloseTemp(p)
    \/ Replace(p)
    \/ Return(p)

(***************************************************************************)
(* A reader: CalibreDB.get_connection and the reads of one query           *)
(***************************************************************************)

ReadInit ==
    /\ rpc = "idle"
    /\ rfd = None
    /\ roff = 0
    /\ rbuf = <<>>
    /\ rsnap = <<>>

\* sqlite3.connect(db_path): opens the file the name points at now; creates an
\* empty file when the name is absent.
ROpen ==
    /\ rpc = "idle"
    /\ LET i == IF dir["local"] = None THEN FreshInode(dir, fd, rfd) ELSE dir["local"] IN
        /\ rfd' = i
        /\ dir' = [dir EXCEPT !["local"] = i]
    /\ roff' = 0
    /\ rbuf' = <<>>
    /\ rsnap' = installed
    /\ rpc' = "reading"
    /\ UNCHANGED <<ino, pc, variant, content, fd, off, fault, sent, installed>>
    /\ UNCHANGED offFiles

\* One read of the open file, at the reader's offset.
RRead ==
    /\ rpc = "reading"
    /\ roff < Len(ino[rfd])
    /\ LET n == Min(ChunkSize, Len(ino[rfd]) - roff) IN
        /\ rbuf' = rbuf \o SubSeq(ino[rfd], roff + 1, roff + n)
        /\ roff' = roff + n
    /\ UNCHANGED <<syncVars, rpc, rfd, rsnap>>
    /\ UNCHANGED offFiles

\* The read that finds end of file.
REof ==
    /\ rpc = "reading"
    /\ roff >= Len(ino[rfd])
    /\ rpc' = "done"
    /\ UNCHANGED <<syncVars, rfd, roff, rbuf, rsnap>>
    /\ UNCHANGED offFiles

\* conn.close()
RClose ==
    /\ rpc = "done"
    /\ rpc' = "idle"
    /\ rfd' = None
    /\ roff' = 0
    /\ rbuf' = <<>>
    /\ rsnap' = <<>>
    /\ ino' = Collect(ino, dir, fd, None)
    /\ UNCHANGED <<dir, pc, variant, content, fd, off, fault, sent, installed>>
    /\ UNCHANGED offFiles

(***************************************************************************)
(* needs_sync: DropboxSync.needs_sync and get_remote_last_modified         *)
(***************************************************************************)

\* Instants are whole seconds 0..MaxTime; UTC offsets are -MaxTz..MaxTz.
MaxTime == 3
MaxTz == 1
Times == 0..MaxTime
TzOffsets == (0 - MaxTz)..MaxTz

\* The Last-Modified header of a response: absent, empty, not a date, or an
\* RFC 2822 date: a wall-clock reading and the zone it is given in (0 is GMT).
Headers ==
    {[kind |-> k, wall |-> 0, zone |-> 0] : k \in {"missing", "empty", "garbage"}}
    \cup {[kind |-> "date", wall |-> w, zone |-> z] : w \in Times, z \in {0, 1}}

\* A HEAD request: it fails (exception or error status), or answers with headers.
NoHeader == [kind |-> "missing", wall |-> 0, zone |-> 0]
HeadOutcomes == {[ok |-> FALSE, hdr |-> NoHeader]} \cup {[ok |-> TRUE, hdr |-> h] : h \in Headers}

\* get_remote_last_modified: the parsed datetime, or None.  A datetime is
\* [wall, aware]: its wall-clock reading and whether it carries a zone.
NoDate == [wall |-> 0, aware |-> FALSE, some |-> FALSE]
GetRemoteLastModified(h) ==
    IF ~h.ok THEN NoDate                                \* except Exception
    ELSE IF h.hdr.kind \in {"missing", "empty"} THEN NoDate  \* if last_modified_str
    ELSE IF h.hdr.kind = "garbage" THEN NoDate          \* parsedate_to_datetime raises
    ELSE [wall |-> h.hdr.wall, aware |-> TRUE, some |-> TRUE]

\* remote_modified.replace(tzinfo=None): the zone is dropped, the reading kept.
StripZone(d) == [d EXCEPT !.aware = FALSE]

\* datetime.fromtimestamp(mtime): the local wall-clock reading of an instant.
FromTimestamp(t) == [wall |-> t + tzoff, aware |-> FALSE, some |-> TRUE]

\* remote_modified > local_modified
RemoteNotOlder(r, l) == r.wall >= l.wall
RemoteNewer(r, l) == r.wall > l.wall

NeedInit(zones, answers) ==
    /\ lstat = [exists |-> FALSE, size |-> 0, mtime |-> 0]
    /\ tzoff \in zones
    /\ head \in answers
    /\ npc = "idle"
    /\ nremote = NoDate
    /\ nres = FALSE
    /\ heads = 0
    /\ lastEvent = "start"

\* A sync that succeeds puts a database in place, modified at the time it is written.
SyncOk ==
    /\ npc = "idle"
    /\ \E t \in Times : lstat' = [exists |-> TRUE, size |-> MinSize, mtime |-> t]
    /\ lastEvent' = "sync"
    /\ UNCHANGED <<tzoff, head, npc, nremote, nres, heads>>
    /\ UNCHANGED offNeed

\* sqlite3.connect on an absent path leaves an empty file behind.
ConnectCreatesEmpty ==
    /\ npc = "idle"
    /\ ~lstat.exists
    /\ \E t \in Times : lstat' = [exists |-> TRUE, size |-> 0, mtime |-> t]
    /\ lastEvent' = "connect"
    /\ UNCHANGED <<tzoff, head, npc, nremote, nres, heads>>
    /\ UNCHANGED offNeed

\* The remote file, or the way the remote answers, changes.
RemoteChanges ==
    /\ npc = "idle"
    /\ \E h \in HeadOutcomes : h # head /\ head' = h
    /\ lastEvent' = "remote"
    /\ UNCHANGED <<lstat, tzoff, npc, nremote, nres, heads>>
    /\ UNCHANGED offNeed

\* not os.path.exists(local_path), or os.path.getsize(local_path) == 0; and the
\* check of the size left out.
LocalMissingOnly(st) == ~st.exists
LocalMissingOrEmpty(st) == ~st.exists \/ st.size = 0

\* needs_sync, the two checks of the local file.
NeedsSyncLocal ==
    /\ npc = "idle"
    /\ IF LocalMissingOrEmpty(lstat)
       THEN npc' = "done" /\ nres' = TRUE
       ELSE npc' = "head" /\ nres' = FALSE
    /\ nremote' = NoDate
    /\ heads' = 0
    /\ UNCHANGED <<lstat, tzoff, head, lastEvent>>
    /\ UNCHANGED offNeed

\* needs_sync, the HEAD request and the comparison.
NeedsSyncRemote ==
    /\ npc = "head"
    /\ heads' = heads + 1
    /\ LET r == GetRemoteLastModified(head) IN
        /\ nremote' = r
        /\ nres' = IF ~r.some THEN TRUE
                   ELSE RemoteNewer(IF r.aware THEN StripZone(r) ELSE r,
                                    FromTimestamp(lstat.mtime))
    /\ npc' = "done"
    /\ UNCHANGED <<lstat, tzoff, head, lastEvent>>
    /\ UNCHANGED offNeed

NeedsSyncReturn ==
    /\ npc = "done"
    /\ npc' = "idle"
    /\ nremote' = NoDate
    /\ nres' = FALSE
    /\ heads' = 0
    /\ UNCHANGED <<lstat, tzoff, head, lastEvent>>
    /\ UNCHANGED offNeed

(***************************************************************************)
(* LocalStorageAPI: paths are strings, modelled as sequences of characters *)
(***************************************************************************)

\* Longest request path enumerated character by character.
MaxPathLen == 5

PathChars == {"/", ".", "a", "b"}
ShortPaths == UNION {[1..n -> PathChars] : n \in 0..MaxPathLen}

\* "../../etc/passwd", without and with a leading slash.
EtcPasswdPath == <<".", ".", "/", ".", ".", "/", "e", "t", "c", "/", "p", "a", "s", "s", "w", "d">>
SlashEtcPasswdPath == <<"/">> \o EtcPasswdPath
TraversalPaths == {EtcPasswdPath, SlashEtcPasswdPath}
RequestPaths == ShortPaths \cup TraversalPaths

MetadataDb == <<"m", "e", "t", "a", "d", "a", "t", "a", ".", "d", "b">>

\* The machine's files: absolute path -> "dir", "file" (not an image) or "image".
\* /a holds one library folder, /a/b; /ab and /etc/passwd are files outside /a.
World ==
    {<<<<"/">>, "dir">>,
     <<<<"/", "a">>, "dir">>,
     <<<<"/", "a", "/", "b">>, "dir">>,
     <<<<"/", "a", "/", "b", "/", "m", "e", "t", "a", "d", "a", "t", "a", ".", "d", "b">>, "file">>,
     <<<<"/", "a", "/", "b", "/", "a">>, "image">>,
     <<<<"/", "a", "/", "a">>, "dir">>,
     <<<<"/", "a", "b">>, "file">>,
     <<<<"/", "e">>, "dir">>,
     <<<<"/", "e", "t", "c">>, "dir">>,
     <<<<"/", "e", "t", "c", "/", "p">>, "dir">>,
     <<<<"/", "e", "t", "c", "/", "p", "a", "s", "s", "w", "d">>, "file">>}

\* The directories LOCAL_STORAGE_PATH may name (os.path.abspath of each is itself).
BaseDirs == {<<"/", "a">>, <<"/", "a", "/", "b">>, <<"/", "e">>, <<"/", "e", "t", "c", "/", "p">>, <<"/">>}

Kind(path) == IF \E e \in World : e[1] = path
              THEN (CHOOSE e \in World : e[1] = path)[2] ELSE "none"
Exists(path) == Kind(path) # "none"                      \* os.path.exists
IsDir(path) == Kind(path) = "dir"                        \* os.path.isdir
IsFile(path) == Kind(path) \in {"file", "image"}         \* os.path.isfile

\* str.startswith
StrStartsWith(s, prefix) ==
    /\ Len(s) >= Len(prefix)
    /\ SubSeq(s, 1, Len(prefix)) = prefix

\* str.lstrip('/')
RECURSIVE LStripSlash(_)
LStripSlash(s) == IF s # <<>> /\ Head(s) = "/" THEN LStripSlash(Tail(s)) ELSE s

\* str.rstrip('/')
RECURSIVE RStripSlash(_)
RStripSlash(s) ==
    IF s # <<>> /\ s[Len(s)] = "/" THEN RStripSlash(SubSeq(s, 1, Len(s) - 1)) ELSE s

\* str.split('/'): the components between the slashes, empty ones included.
RECURSIVE SplitSlash(_, _, _)
SplitSlash(s, cur, acc) ==
    IF s = <<>> THEN Append(acc, cur)
    ELSE IF Head(s) = "/" THEN SplitSlash(Tail(s), <<>>, Append(acc, cur))
    ELSE SplitSlash(Tail(s), Append(cur, Head(s)), acc)

\* '/'.join(comps)
RECURSIVE JoinSlash(_)
JoinSlash(comps) ==
    IF comps = <<>> THEN <<>>
    ELSE IF Len(comps) = 1 THEN comps[1]
    ELSE comps[1] \o <<"/">> \o JoinSlash(Tail(comps))

Dot == <<".">>
DotDot == <<".", ".">>

\* The loop of posixpath.normpath over the components.
RECURSIVE NormComps(_, _, _)
NormComps(comps, new, slashes) ==
    IF comps = <<>> THEN new
    ELSE LET comp == Head(comps) IN
        IF comp = <<>> \/ comp = Dot THEN NormComps(Tail(comps), new, slashes)
        ELSE IF \/ comp # DotDot
                \/ (slashes = 0 /\ new = <<>>)
                \/ (new # <<>> /\ new[Len(new)] = DotDot)
             THEN NormComps(Tail(comps), Append(new, comp), slashes)
        ELSE IF new # <<>>
             THEN NormComps(Tail(comps), SubSeq(new, 1, Len(new) - 1), slashes)
        ELSE NormComps(Tail(comps), new, slashes)

\* posixpath.normpath
NormPath(path) ==
    IF path = <<>> THEN Dot
    ELSE LET slashes == IF Head(path) # "/" THEN 0
                        ELSE IF StrStartsWith(path, <<"/", "/">>)
                                /\ ~StrStartsWith(path, <<"/", "/", "/">>) THEN 2
                        ELSE 1
             body == JoinSlash(NormComps(SplitSlash(path, <<>>, <<>>), <<>>, slashes))
             out == [i \in 1..slashes |-> "/"] \o body
         IN  IF out = <<>> THEN Dot ELSE out

\* posixpath.join(a, b)
PathJoin(a, b) ==
    IF b # <<>> /\ Head(b) = "/" THEN b
    ELSE IF a = <<>> \/ a[Len(a)] = "/" THEN a \o b
    ELSE a \o <<"/">> \o b

\* if not full_path.startswith(self.base_path)
WithinBase(full, base) == StrStartsWith(full, base)

\* LocalStorageAPI._resolve_path: [ok, path]; ok is FALSE for the ValueError.
ResolvePath(base, path) ==
    LET full == NormPath(PathJoin(base, LStripSlash(path))) IN
    [ok |-> WithinBase(full, base), path |-> full]

\* full is base itself or lies below it.
Inside(full, base) ==
    \/ full = base
    \/ base = <<"/">> /\ StrStartsWith(full, base)
    \/ StrStartsWith(full, base \o <<"/">>)

NoPath == <<>>

\* LocalStorageAPI.download_file.  fault: "none", "traversal", "not_found" or
\* "not_file"; statted: an existence check was made; body: the file that was read.
DownloadFile(base, path) ==
    LET r == ResolvePath(base, path) IN
    IF ~r.ok THEN [fault |-> "traversal", statted |-> FALSE, body |-> NoPath]
    ELSE IF ~Exists(r.path) THEN [fault |-> "not_found", statted |-> TRUE, body |-> NoPath]
    ELSE IF ~IsFile(r.path) THEN [fault |-> "not_file", statted |-> TRUE, body |-> NoPath]
    ELSE [fault |-> "none", statted |-> TRUE, body |-> r.path]

\* The folders of base that hold a metadata.db, as "/<entry>".
LocalSuggestions(base) ==
    {<<"/">> \o SubSeq(e[1], Len(PathJoin(base, <<>>)) + 1, Len(e[1])) :
        e \in {x \in World :
                 /\ x[1] # base
                 /\ StrStartsWith(x[1], PathJoin(base, <<>>))
                 /\ \A i \in (Len(PathJoin(base, <<>>)) + 1)..Len(x[1]) : x[1][i] # "/"
                 /\ IsDir(x[1])
                 /\ Exists(PathJoin(x[1], MetadataDb))}}

\* LocalStorageAPI.validate_library_path.  error: "none", "traversal" (the
\* ValueError's text), "library_not_found" or "metadata_not_found"; suggestions:
\* the folders named in the message; meta: the file whose size and mtime are returned.
LocalValidateLibraryPath(base, path) ==
    LET r == ResolvePath(base, path)
        md == PathJoin(r.path, MetadataDb)
    IN  IF ~r.ok
        THEN [valid |-> FALSE, error |-> "traversal", suggestions |-> {}, meta |-> NoPath]
        ELSE IF ~Exists(r.path)
        THEN [valid |-> FALSE, error |-> "library_not_found", suggestions |-> {},
              meta |-> NoPath]
        ELSE IF ~Exists(md)
        THEN [valid |-> FALSE, error |-> "metadata_not_found",
              suggestions |-> LocalSuggestions(base), meta |-> NoPath]
        ELSE [valid |-> TRUE, error |-> "none", suggestions |-> {}, meta |-> md]

\* LocalStorageAPI.get_thumbnails_batch, one entry of the result list.  image: the
\* file the thumbnail was made from.
Thumbnail(base, path) ==
    LET r == ResolvePath(base, path) IN
    IF ~r.ok THEN [error |-> "conversion_error", image |-> NoPath]       \* except Exception
    ELSE IF ~Exists(r.path) THEN [error |-> "path", image |-> NoPath]
    ELSE IF Kind(r.path) # "image" THEN [error |-> "conversion_error", image |-> NoPath]
    ELSE [error |-> "none", image |-> r.path]

\* No call is in progress.
NoResult == [op |-> "none"]

PathInit ==
    /\ pbase \in BaseDirs
    /\ pin = <<>>
    /\ pout = NoResult

CallResolvePath ==
    /\ pout = NoResult
    /\ \E path \in RequestPaths :
        /\ pin' = path
        /\ pout' = [op |-> "resolve", r |-> ResolvePath(pbase, path)]
    /\ UNCHANGED pbase
    /\ UNCHANGED offPath

CallDownloadFile ==
    /\ pout = NoResult
    /\ \E path \in RequestPaths :
        /\ pin' = path
        /\ pout' = [op |-> "download", r |-> DownloadFile(pbase, path)]
    /\ UNCHANGED pbase
    /\ UNCHANGED offPath

CallValidateLibraryPath ==
    /\ pout = NoResult
    /\ \E path \in RequestPaths :
        /\ pin' = path
        /\ pout' = [op |-> "validate", r |-> LocalValidateLibraryPath(pbase, path)]
    /\ UNCHANGED pbase
    /\ UNCHANGED offPath

CallThumbnail ==
    /\ pout = NoResult
    /\ \E path \in RequestPaths :
        /\ pin' = path
        /\ pout' = [op |-> "thumbnail", r |-> Thumbnail(pbase, path)]
    /\ UNCHANGED pbase
    /\ UNCHANGED offPath

\* The call is over; the store takes the next one.
PathReturn ==
    /\ pout # NoResult
    /\ pin' = <<>>
    /\ pout' = NoResult
    /\ UNCHANGED pbase
    /\ UNCHANGED offPath

(***************************************************************************)
(* DropboxAPI: get_metadata, list_folder and validate_library_path         *)
(***************************************************************************)

\* Longest library path enumerated character by character.
MaxLibLen == 3

\* The top-level names of the remote store, and what each is there: nothing, a
\* file, a folder, or a folder holding metadata.db.
FolderNames == {"F", "G"}
EntryKinds == {"none", "file", "folder", "library"}
LibChars == {"/"} \cup FolderNames
LibraryPaths == UNION {[1..n -> LibChars] : n \in 0..MaxLibLen}

\* A response to a request: the transport's outcome, the status code and the body:
\* "text" (not JSON), "record" (the JSON of a success) or "error" (the JSON of an
\* error, with its .tag and, under a path error, the nested .tag).
NetFailures ==
    {[net |-> n, status |-> 0, body |-> "text", tag |-> "none", sub |-> "none"] :
        n \in {"timeout", "connection"}}
Answered(st, b, t, u) == [net |-> "ok", status |-> st, body |-> b, tag |-> t, sub |-> u]
Statuses == {200, 400, 401, 409, 429, 500}
Responses ==
    NetFailures
    \cup {Answered(st, b, "none", "none") : st \in Statuses, b \in {"text", "record"}}
    \cup {Answered(st, "error", t, "none") : st \in Statuses, t \in {"other", "none"}}
    \cup {Answered(st, "error", "path", u) :
            st \in Statuses,
            u \in {"not_found", "not_file", "not_folder", "malformed_path", "restricted_content"}}

Success == Answered(200, "record", "none", "none")
PathNotFound == Answered(409, "error", "path", "not_found")
PathMalformed == Answered(409, "error", "path", "malformed_path")

\* response.raise_for_status()
RaisesForStatus(resp) == resp.status >= 400

\* DropboxAPI.get_metadata: "none" (returns None), "record" (returns the JSON) or
\* "raise".
GetMetadata(resp) ==
    IF resp.net # "ok" THEN "raise"                         \* RequestException
    ELSE IF resp.status = 409 /\ resp.body = "text" THEN "raise"   \* response.json()
    ELSE IF resp.status = 409 /\ resp.tag = "path" THEN "none"
    ELSE IF RaisesForStatus(resp) THEN "raise"
    ELSE IF resp.body = "text" THEN "raise"                 \* response.json()
    ELSE "record"

\* DropboxAPI.list_folder: "entries" (returns the list) or "raise".
ListFolder(resp) ==
    IF resp.net # "ok" THEN "raise"
    ELSE IF resp.status = 409 /\ resp.body = "text" THEN "raise"
    ELSE IF resp.status = 409 /\ resp.tag = "path"
            /\ resp.sub \in {"not_found", "not_folder"} THEN "raise"
    ELSE IF RaisesForStatus(resp) THEN "raise"
    ELSE IF resp.body = "text" THEN "raise"
    ELSE "entries"

\* The normalization at the head of validate_library_path and sync_metadata_db.
NormalizeLibraryPath(path) ==
    RStripSlash(IF StrStartsWith(path, <<"/">>) THEN path ELSE <<"/">> \o path)

MetadataPath(lib) == lib \o <<"/">> \o MetadataDb

FolderPath(name) == <<"/", name>>

\* What the remote answers when nothing goes wrong.
HasDoubleSlash(path) == \E i \in 1..(Len(path) - 1) : path[i] = "/" /\ path[i + 1] = "/"
HonestMetadata(st, path) ==
    IF \E n \in FolderNames : st[n] = "library" /\ path = MetadataPath(FolderPath(n))
    THEN Success
    ELSE IF HasDoubleSlash(path) THEN PathMalformed
    ELSE PathNotFound

\* The answers a request of the validator can get: the honest one, or a failure.
Failures ==
    NetFailures \cup {Answered(401, "error", "other", "none"),
                      Answered(500, "text", "none", "none")}

\* What the validator does with a probe's outcome: "append" the folder, "skip" it,
\* or let the exception "escape".
OnProbeNoTry(outcome) ==
    IF outcome = "record" THEN "append"
    ELSE IF outcome = "raise" THEN "escape"
    ELSE "skip"
OnProbe(outcome) ==
    IF outcome = "record" THEN "append"     \* if sub_metadata
    ELSE "skip"                             \* None, or except Exception: pass

NoValidation == [kind |-> "none"]
Raised == [kind |-> "raised"]
Invalid(lib, sugg) ==
    [kind |-> "returned", valid |-> FALSE, error |-> "metadata_not_found",
     at |-> lib, suggestions |-> sugg]
Valid == [kind |-> "returned", valid |-> TRUE, error |-> "none",
          at |-> <<>>, suggestions |-> <<>>]

DropboxInit(stores) ==
    /\ store \in stores
    /\ vpc = "idle"
    /\ vlib = <<>>
    /\ vfolders = <<>>
    /\ vsugg = <<>>
    /\ vout = NoValidation
    /\ vlog = <<>>
    /\ gresp = Success
    /\ gout = "idle"

\* validate_library_path is called: the path is normalized.
ValidateStart ==
    /\ vpc = "idle" /\ gout = "idle"
    /\ \E path \in LibraryPaths : vlib' = NormalizeLibraryPath(path)
    /\ vpc' = "primary"
    /\ vfolders' = <<>>
    /\ vsugg' = <<>>
    /\ vout' = NoValidation
    /\ vlog' = <<>>
    /\ UNCHANGED <<store, gresp, gout>>
    /\ UNCHANGED offDropbox

\* metadata = self.get_metadata(metadata_path)
ValidatePrimary ==
    /\ vpc = "primary"
    /\ \E resp \in {HonestMetadata(store, MetadataPath(vlib))} \cup Failures :
        LET m == GetMetadata(resp) IN
        /\ vlog' = Append(vlog, resp)
        /\ vpc' = IF m = "none" THEN "list" ELSE "done"
        /\ vout' = IF m = "raise" THEN Raised
                   ELSE IF m = "record" THEN Valid ELSE vout
    /\ UNCHANGED <<store, vlib, vfolders, vsugg, gresp, gout>>
    /\ UNCHANGED offDropbox

\* entries = self.list_folder(""), and the folders among them, in either order.
ValidateList ==
    /\ vpc = "list"
    /\ \E resp \in {Success} \cup Failures :
        /\ vlog' = Append(vlog, resp)
        /\ IF ListFolder(resp) = "raise"
           THEN /\ vpc' = "done"                            \* outer except: pass
                /\ vout' = Invalid(vlib, <<>>)
                /\ UNCHANGED vfolders
           ELSE /\ \E order \in {<<"F", "G">>, <<"G", "F">>} :
                    vfolders' = SelectSeq(order, LAMBDA n : store[n] \in {"folder", "library"})
                /\ vpc' = "probe"
                /\ UNCHANGED vout
    /\ UNCHANGED <<store, vlib, vsugg, gresp, gout>>
    /\ UNCHANGED offDropbox

\* One round of the loop over the folders: the probe of /<folder>/metadata.db.
ValidateProbe ==
    /\ vpc = "probe"
    /\ Len(vlog) - 2 < Len(vfolders)
    /\ LET folder == vfolders[Len(vlog) - 1] IN
       \E resp \in {HonestMetadata(store, MetadataPath(FolderPath(folder)))} \cup Failures :
        LET act == OnProbe(GetMetadata(resp)) IN
        /\ vlog' = Append(vlog, resp)
        /\ vsugg' = IF act = "append" THEN Append(vsugg, FolderPath(folder)) ELSE vsugg
        /\ IF act = "escape"                   \* the outer except: pass ends the loop
           THEN vpc' = "done" /\ vout' = Invalid(vlib, vsugg)
           ELSE UNCHANGED <<vpc, vout>>
    /\ UNCHANGED <<store, vlib, vfolders, gresp, gout>>
    /\ UNCHANGED offDropbox

\* The loop is over: the message is composed and returned.
ValidateCompose ==
    /\ vpc = "probe"
    /\ Len(vlog) - 2 >= Len(vfolders)
    /\ vpc' = "done"
    /\ vout' = Invalid(vlib, vsugg)
    /\ UNCHANGED <<store, vlib, vfolders, vsugg, vlog, gresp, gout>>
    /\ UNCHANGED offDropbox

ValidateReturn ==
    /\ vpc = "done"
    /\ vpc' = "idle"
    /\ vlib' = <<>>
    /\ vfolders' = <<>>
    /\ vsugg' = <<>>
    /\ vout' = NoValidation
    /\ vlog' = <<>>
    /\ UNCHANGED <<store, gresp, gout>>
    /\ UNCHANGED offDropbox

\* get_metadata is called and the remote answers.
CallGetMetadata ==
    /\ vpc = "idle" /\ gout = "idle"
    /\ \E resp \in Responses :
        /\ gresp' = resp
        /\ gout' = GetMetadata(resp)
    /\ UNCHANGED <<store, vpc, vlib, vfolders, vsugg, vout, vlog>>
    /\ UNCHANGED offDropbox

GetMetadataReturn ==
    /\ gout # "idle"
    /\ gresp' = Success
    /\ gout' = "idle"
    /\ UNCHANGED <<store, vpc, vlib, vfolders, vsugg, vout, vlog>>
    /\ UNCHANGED offDropbox

(***************************************************************************)
(* DropboxAPI.download_file                                                *)
(***************************************************************************)

\* The paths asked for: a top-level name, or the metadata.db under one.
DownloadPaths ==
    {FolderPath(n) : n \in FolderNames} \cup {MetadataPath(FolderPath(n)) : n \in FolderNames}

\* What the remote store holds at a path: "file", "folder" or "none".
RemoteKind(st, path) ==
    IF \E n \in FolderNames : path = FolderPath(n)
    THEN LET n == CHOOSE k \in FolderNames : path = FolderPath(k) IN
         IF st[n] \in {"folder", "library"} THEN "folder" ELSE st[n]
    ELSE IF \E n \in FolderNames : path = MetadataPath(FolderPath(n)) /\ st[n] = "library"
    THEN "file"
    ELSE "none"

\* The response to a download when nothing goes wrong: the bytes of the file, or a
\* 409 with the path error that fits.
FileBytes == Answered(200, "text", "none", "none")
HonestDownload(st, path) ==
    IF RemoteKind(st, path) = "file" THEN FileBytes
    ELSE IF RemoteKind(st, path) = "folder" THEN Answered(409, "error", "path", "not_file")
    ELSE PathNotFound

\* The other answers a download can get.
DownloadFailures ==
    Failures \cup {Answered(409, "text", "none", "none"),
                   Answered(409, "error", "other", "none"),
                   Answered(409, "error", "path", "restricted_content"),
                   Answered(429, "error", "other", "none")}

\* download_file taking every 409 path error for a missing file, as get_metadata does.
DropboxDownloadFileNoNestedTag(resp) ==
    IF resp.net # "ok" THEN "failed"
    ELSE IF resp.status = 409 /\ resp.body = "text" THEN "failed"
    ELSE IF resp.status = 409 /\ resp.tag = "path" THEN "not_found"
    ELSE IF RaisesForStatus(resp) THEN "failed"
    ELSE "content"

\* DropboxAPI.download_file: "content" (returns response.content), "not_found"
\* ('File not found: ...'), "not_file" ('Path is not a file: ...') or "failed" (any
\* other exception: 'Failed to download file: ...', or the error of response.json()).
DropboxDownloadFile(resp) ==
    IF resp.net # "ok" THEN "failed"                        \* RequestException
    ELSE IF resp.status = 409 /\ resp.body = "text" THEN "failed"    \* response.json()
    ELSE IF resp.status = 409 /\ resp.tag = "path" /\ resp.sub = "not_found" THEN "not_found"
    ELSE IF resp.status = 409 /\ resp.tag = "path" /\ resp.sub = "not_file" THEN "not_file"
    ELSE IF RaisesForStatus(resp) THEN "failed"
    ELSE "content"

DownloadInit ==
    /\ dpath = <<>>
    /\ dresp = FileBytes
    /\ dout = "idle"

\* download_file is called and the remote answers.
CallDropboxDownloadFile ==
    /\ dout = "idle" /\ pout = NoResult
    /\ \E path \in DownloadPaths :
        /\ dpath' = path
        /\ \E resp \in {HonestDownload(store, path)} \cup DownloadFailures :
            /\ dresp' = resp
            /\ dout' = DropboxDownloadFile(resp)
    /\ UNCHANGED store
    /\ UNCHANGED offDownload

DropboxDownloadReturn ==
    /\ dout # "idle"
    /\ dpath' = <<>>
    /\ dresp' = FileBytes
    /\ dout' = "idle"
    /\ UNCHANGED store
    /\ UNCHANGED offDownload

(***************************************************************************)
(* Text as SQLite compares it: BINARY collation for ORDER BY, LIKE for the *)
(* search                                                                  *)
(***************************************************************************)

UpperCase == <<"A", "B", "C", "D", "E", "F", "G", "H", "I", "J", "K", "L", "M",
               "N", "O", "P", "Q", "R", "S", "T", "U", "V", "W", "X", "Y", "Z">>
LowerCase == <<"a", "b", "c", "d", "e", "f", "g", "h", "i", "j", "k", "l", "m",
               "n", "o", "p", "q", "r", "s", "t", "u", "v", "w", "x", "y", "z">>

\* The characters of the modelled text, in the order of their byte values.
AsciiOrder == <<" ", "%", "'", ",", "-">> \o UpperCase \o <<"_">> \o LowerCase
Ord(c) == CHOOSE i \in 1..Len(AsciiOrder) : AsciiOrder[i] = c

\* str.lower / the case folding of LIKE, for ASCII letters.
ToLower(c) ==
    IF \E i \in 1..Len(UpperCase) : UpperCase[i] = c
    THEN LowerCase[CHOOSE i \in 1..Len(UpperCase) : UpperCase[i] = c]
    ELSE c
LowerStr(s) == [i \in 1..Len(s) |-> ToLower(s[i])]

\* memcmp order of two strings: the first differing byte decides, else the length.
StrLess(a, b) ==
    \/ \E i \in 1..Min(Len(a), Len(b)) :
        /\ \A j \in 1..(i - 1) : a[j] = b[j]
        /\ Ord(a[i]) < Ord(b[i])
    \/ Len(a) < Len(b) /\ \A j \in 1..Len(a) : a[j] = b[j]

\* A NULL column value (no string: its one element is no character).
SqlNull == <<"NULL">>

\* ORDER BY on a TEXT column: NULLs first, then byte order.
SortLess(x, y) ==
    IF x = SqlNull THEN y # SqlNull
    ELSE y # SqlNull /\ StrLess(x, y)

\* text LIKE pattern: % is any run of characters, _ any one character, every other
\* character matches itself without regard to ASCII case.
RECURSIVE LikeMatch(_, _)
LikeMatch(pattern, text) ==
    IF pattern = <<>> THEN text = <<>>
    ELSE IF Head(pattern) = "%"
    THEN LikeMatch(Tail(pattern), text) \/ (text # <<>> /\ LikeMatch(pattern, Tail(text)))
    ELSE IF text = <<>> THEN FALSE
    ELSE IF Head(pattern) = "_" THEN LikeMatch(Tail(pattern), Tail(text))
    ELSE ToLower(Head(pattern)) = ToLower(Head(text)) /\ LikeMatch(Tail(pattern), Tail(text))

\* column LIKE pattern in a WHERE clause: NULL LIKE ... is NULL, which does not hold.
Like(value, pattern) == value # SqlNull /\ LikeMatch(pattern, value)

(***************************************************************************)
(* CalibreDB: get_books, search_books and get_book_detail                  *)
(***************************************************************************)

\* Most books of a modelled library.
MaxBooks == 3

\* Strings of the modelled libraries.
StrAb == <<"A", "b">>
StrB == <<"b">>
StrCb == <<"C", "b">>
StrC == <<"c">>

\* The books a library is made of: title, sort key, the names of the linked authors
\* and the tags.  Two books share the sort key "b"; one has no sort key, one no author,
\* one two authors.
BookKinds ==
    {[title |-> StrAb, sort |-> StrAb, authors |-> {<<"a">>, <<"C", "a">>}, tags |-> {<<"t">>}],
     [title |-> StrB, sort |-> StrB, authors |-> {}, tags |-> {}],
     [title |-> StrCb, sort |-> StrB, authors |-> {StrAb}, tags |-> {<<"t">>}],
     [title |-> StrC, sort |-> SqlNull, authors |-> {<<"C">>}, tags |-> {}]}

\* The tables of a Calibre library that the queries read.
ListTables == {"books", "books_authors_link", "authors", "books_series_link", "series",
               "books_ratings_link", "ratings"}
PrimaryTables == {"books", "books_series_link", "series", "books_ratings_link", "ratings",
                  "books_publishers_link", "publishers", "comments"}
AuxQueries == <<"authors", "tags", "languages", "formats", "identifiers">>
AuxTables(q) ==
    IF q = "authors" THEN {"authors", "books_authors_link"}
    ELSE IF q = "tags" THEN {"tags", "books_tags_link"}
    ELSE IF q = "languages" THEN {"languages", "books_languages_link"}
    ELSE IF q = "formats" THEN {"data"}
    ELSE {"identifiers"}
CalibreTables ==
    ListTables \cup PrimaryTables \cup UNION {AuxTables(AuxQueries[i]) : i \in 1..Len(AuxQueries)}

\* Whether the SQLite build compiles GROUP_CONCAT(DISTINCT a.name, ' & '): SQLite
\* (3.40.1 among others) rejects a DISTINCT aggregate with two arguments with
\* "DISTINCT aggregates must have exactly one argument"; a build that took it would
\* concatenate the distinct names.
DistinctWithSeparator == {FALSE, TRUE}

\* The libraries: books 1..n (the id is the rowid) over a set of tables, opened by
\* either kind of build.
Libraries(tables) ==
    {[books |-> b, tables |-> tables, distinctSep |-> e] :
        b \in UNION {[1..n -> BookKinds] : n \in 0..MaxBooks}, e \in DistinctWithSeparator}
NoLibrary == [books |-> <<>>, tables |-> CalibreTables, distinctSep |-> FALSE]

\* ORDER BY b.sort over the books ids: rows with equal keys come out in the order
\* the scan of books meets them, the same in every run of a query on an unchanged file.
Before(d, x, y) ==
    \/ SortLess(d.books[x].sort, d.books[y].sort)
    \/ d.books[x].sort = d.books[y].sort /\ x < y
OrderBySort(d, ids) ==
    [i \in 1..Cardinality(ids) |->
        CHOOSE x \in ids : Cardinality({y \in ids : Before(d, y, x)}) = i - 1]

\* offset = (page - 1) * per_page, and the mistake of taking the page for 0-indexed.
OffsetOfZeroIndexed(page, per_page) == page * per_page
OffsetOf(page, per_page) == (page - 1) * per_page

\* LIMIT per_page OFFSET offset of an ordered result.
LimitOffset(order, per_page, offset) ==
    [i \in 1..Max(0, Min(per_page, Len(order) - offset)) |-> order[offset + i]]

\* A query raised sqlite3.OperationalError: nothing is returned.
NoSuchTable == [fault |-> "no_such_table", total |-> 0, rows |-> <<>>]
DistinctAggregate == [fault |-> "distinct_aggregate", total |-> 0, rows |-> <<>>]

\* CalibreDB.get_books: COUNT(*) of books, and one row per book (GROUP BY b.id) with
\* the names of its authors.
GetBooks(d, page, per_page) ==
    IF ~(ListTables \subseteq d.tables) THEN NoSuchTable
    ELSE LET ids == LimitOffset(OrderBySort(d, DOMAIN d.books), per_page,
                                OffsetOf(page, per_page))
         IN  [fault |-> "none",
              total |-> Cardinality(DOMAIN d.books),
              rows |-> [i \in 1..Len(ids) |->
                          [id |-> ids[i], title |-> d.books[ids[i]].title,
                           authors |-> d.books[ids[i]].authors]]]

\* The rows of books LEFT JOIN books_authors_link LEFT JOIN authors for one book that
\* pass WHERE b.title LIKE ? OR a.name LIKE ?, as the author names (or NULL).
MatchingJoinRows(d, id, pattern) ==
    LET names == IF d.books[id].authors = {} THEN {SqlNull} ELSE d.books[id].authors
    IN  {a \in names : Like(d.books[id].title, pattern) \/ Like(a, pattern)}

\* CalibreDB.search_books: COUNT(DISTINCT b.id) over the matching join rows, and one
\* row per matching book with the author names of its matching join rows.
SearchBooks(d, term, page, per_page) ==
    IF ~(ListTables \subseteq d.tables) THEN NoSuchTable
    ELSE IF ~d.distinctSep THEN DistinctAggregate
    ELSE LET pattern == <<"%">> \o term \o <<"%">>
             hits == {id \in DOMAIN d.books : MatchingJoinRows(d, id, pattern) # {}}
             ids == LimitOffset(OrderBySort(d, hits), per_page, OffsetOf(page, per_page))
         IN  [fault |-> "none",
              total |-> Cardinality(hits),
              rows |-> [i \in 1..Len(ids) |->
                          [id |-> ids[i], title |-> d.books[ids[i]].title,
                           authors |-> MatchingJoinRows(d, ids[i], pattern) \ {SqlNull}]]]

\* The arguments a catalog call takes.
PerPages == {1, 2}
SearchTerms == {<<>>, <<"a">>, <<"A">>, <<"a", "B">>, <<"c", "a">>, <<"d">>, <<"_">>, <<"%">>}
NoArgs == [op |-> "none", per_page |-> 1, term |-> <<>>, id |-> 0]

NoDetail == [kind |-> "none"]
NotFound == [kind |-> "not_found"]                 \* return None
DetailRaised == [kind |-> "raised"]

CatalogInit(libs) ==
    /\ db \in libs
    /\ cpc = "idle"
    /\ cargs = NoArgs
    /\ cpages = <<>>
    /\ clog = <<>>
    /\ cout = NoDetail

\* A client starts paging through the list, per_page books at a time.
GetBooksStart ==
    /\ cpc = "idle"
    /\ \E n \in PerPages : cargs' = [NoArgs EXCEPT !.op = "list", !.per_page = n]
    /\ cpc' = "list"
    /\ UNCHANGED <<db, cpages, clog, cout>>
    /\ UNCHANGED offCatalog

\* get_books(page, per_page) for the next page; the client goes on until a page
\* comes back empty.
GetBooksPage ==
    /\ cpc = "list"
    /\ IF cpages = <<>> THEN TRUE ELSE cpages[Len(cpages)].rows # <<>>
    /\ cpages' = Append(cpages, GetBooks(db, Len(cpages) + 1, cargs.per_page))
    /\ UNCHANGED <<db, cpc, cargs, clog, cout>>
    /\ UNCHANGED offCatalog

\* A client starts paging through the results of a search.
SearchBooksStart ==
    /\ cpc = "idle"
    /\ \E n \in PerPages, term \in SearchTerms :
        cargs' = [NoArgs EXCEPT !.op = "search", !.per_page = n, !.term = term]
    /\ cpc' = "search"
    /\ UNCHANGED <<db, cpages, clog, cout>>
    /\ UNCHANGED offCatalog

\* search_books(term, page, per_page) for the next page.
SearchBooksPage ==
    /\ cpc = "search"
    /\ IF cpages = <<>> THEN TRUE ELSE cpages[Len(cpages)].rows # <<>>
    /\ cpages' = Append(cpages, SearchBooks(db, cargs.term, Len(cpages) + 1, cargs.per_page))
    /\ UNCHANGED <<db, cpc, cargs, clog, cout>>
    /\ UNCHANGED offCatalog

\* if not book, and the check left out.
NoRowNever(d, id) == FALSE
NoRow(d, id) == id \notin DOMAIN d.books

\* get_book_detail(book_id) up to the primary query and the test of its row.
DetailPrimary ==
    /\ cpc = "idle"
    /\ \E id \in 0..(MaxBooks + 1) :
        /\ cargs' = [NoArgs EXCEPT !.op = "detail", !.id = id]
        /\ IF ~(PrimaryTables \subseteq db.tables)
           THEN cpc' = "done" /\ cout' = DetailRaised                \* no such table
           ELSE IF NoRow(db, id) THEN cpc' = "done" /\ cout' = NotFound
           ELSE IF id \notin DOMAIN db.books
           THEN cpc' = "done" /\ cout' = DetailRaised                \* dict(None)
           ELSE /\ cpc' = "aux"
                /\ cout' = [kind |-> "record", id |-> id, title |-> db.books[id].title,
                            fields |-> {}]
    /\ clog' = <<"book">>
    /\ UNCHANGED <<db, cpages>>
    /\ UNCHANGED offCatalog

\* The next auxiliary query of get_book_detail, and after the last one the return.
DetailAux ==
    /\ cpc = "aux"
    /\ LET q == AuxQueries[Len(clog)] IN
        /\ clog' = Append(clog, q)
        /\ IF ~(AuxTables(q) \subseteq db.tables)
           THEN cpc' = "done" /\ cout' = DetailRaised
           ELSE /\ cout' = [cout EXCEPT !.fields = @ \cup {q}]
                /\ cpc' = IF Len(clog) = Len(AuxQueries) THEN "done" ELSE "aux"
    /\ UNCHANGED <<db, cargs, cpages>>
    /\ UNCHANGED offCatalog

\* The call, or the paging, is over.
CatalogReturn ==
    /\ \/ cpc = "done"
       \/ cpc \in {"list", "search"} /\ cpages # <<>> /\ cpages[Len(cpages)].rows = <<>>
    /\ cpc' = "idle"
    /\ cargs' = NoArgs
    /\ cpages' = <<>>
    /\ clog' = <<>>
    /\ cout' = NoDetail
    /\ UNCHANGED db
    /\ UNCHANGED offCatalog

(***************************************************************************)
(* generate_fixtures: the test library and its database                    *)
(***************************************************************************)

\* num_books of the modelled run (main passes 25).
FixtureBooks == 2

\* random.randint(2, 5) words to a title: the fewest, and the most modelled.
MinTitleWords == 2
MaxTitleWords == 3

\* Some of BOOK_TITLE_WORDS, FIRST_NAMES and LAST_NAMES.
WordThe == <<"T", "h", "e">>
WordA == <<"A">>
WordDark == <<"D", "a", "r", "k">>
TitleWords == {WordThe, WordA, WordDark}
FirstNames == {<<"A", "l", "i", "c", "e">>}
LastNames == {<<"B", "r", "o", "w", "n">>}

\* " ".join(words)
RECURSIVE JoinWords(_)
JoinWords(ws) ==
    IF ws = <<>> THEN <<>>
    ELSE IF Len(ws) = 1 THEN ws[1]
    ELSE ws[1] \o <<" ">> \o JoinWords(Tail(ws))

\* generate_title: random.sample draws distinct words.
GeneratedTitles ==
    {JoinWords(ws) :
        ws \in {w \in UNION {[1..n -> TitleWords] : n \in MinTitleWords..MaxTitleWords} :
                  \A i, j \in 1..Len(w) : w[i] = w[j] => i = j}}

\* generate_author
GeneratedAuthors == {f \o <<" ">> \o l : f \in FirstNames, l \in LastNames}

\* create_sort_name: a leading "the ", "a " or "an " goes to the end, after ", ".
SortPrefixes == <<<<"t", "h", "e", " ">>, <<"a", " ">>, <<"a", "n", " ">>>>
CreateSortName(title) ==
    IF \E k \in 1..Len(SortPrefixes) : StrStartsWith(LowerStr(title), SortPrefixes[k])
    THEN LET k == CHOOSE i \in 1..Len(SortPrefixes) :
                    /\ StrStartsWith(LowerStr(title), SortPrefixes[i])
                    /\ \A j \in 1..(i - 1) : ~StrStartsWith(LowerStr(title), SortPrefixes[j])
             n == Len(SortPrefixes[k])
         IN  SubSeq(title, n + 1, Len(title)) \o <<",", " ">> \o SubSeq(title, 1, n - 1)
    ELSE title

\* The canary book.
CanaryTitle == <<"A", "l", "p", "h", "a", " ", "T", "e", "s", "t", " ", "B", "o", "o", "k">>
CanaryAuthor == <<"T", "e", "s", "t", " ", "A", "u", "t", "h", "o", "r">>
TagFiction == <<"F", "i", "c", "t", "i", "o", "n">>
Canary == [title |-> CanaryTitle, sort |-> CanaryTitle, authors |-> {CanaryAuthor},
           tags |-> {TagFiction}]

\* The tables create_database creates.
FixtureTables ==
    {"books", "authors", "books_authors_link", "series", "books_series_link", "ratings",
     "books_ratings_link", "publishers", "books_publishers_link", "tags", "books_tags_link",
     "comments", "data", "identifiers"}

FixtureInit ==
    /\ fpc = "generating"
    /\ fbooks = <<>>

\* One round of the loop of generate_fixtures.
GenerateBook ==
    /\ fpc = "generating"
    /\ Len(fbooks) < FixtureBooks
    /\ \E title \in GeneratedTitles, author \in GeneratedAuthors :
        fbooks' = Append(fbooks, [title |-> title, sort |-> CreateSortName(title),
                                  authors |-> {author}, tags |-> {TagFiction}])
    /\ UNCHANGED <<fpc, db>>
    /\ UNCHANGED offFixture

\* The canary is added with id num_books + 1 and create_database writes the file.
CreateFixtureDatabase ==
    /\ fpc = "generating"
    /\ Len(fbooks) = FixtureBooks
    /\ cpc = "idle"
    /\ fbooks' = Append(fbooks, Canary)
    /\ \E e \in DistinctWithSeparator :
        db' = [books |-> Append(fbooks, Canary), tables |-> FixtureTables, distinctSep |-> e]
    /\ fpc' = "done"
    /\ UNCHANGED offFixture

(***************************************************************************)
(* app.py: require_auth and the routes behind it                           *)
(***************************************************************************)

\* A header, query parameter or environment variable that is not there.
Absent == <<"absent">>
\* dict.get(key, default), os.getenv(key, default)
GetOr(v, default) == IF v = Absent THEN default ELSE v

\* str.strip()
RECURSIVE LStrip(_)
LStrip(s) == IF s # <<>> /\ Head(s) = " " THEN LStrip(Tail(s)) ELSE s
RECURSIVE RStrip(_)
RStrip(s) == IF s # <<>> /\ s[Len(s)] = " " THEN RStrip(SubSeq(s, 1, Len(s) - 1)) ELSE s
StrStrip(s) == RStrip(LStrip(s))

\* Values of the APP_PASSWORD environment variable and of the X-App-Password header.
EnvPasswords == {Absent, <<" ">>, <<"p">>, <<"p", " ">>}
PasswordHeaders == {Absent, <<" ">>, <<"p">>, <<" ", "p", " ">>, <<"q">>}
\* Values of the X-Library-Path header and of the path query parameter.
LibraryHeaders == {Absent, <<" ">>, <<"/", "L">>}
PathParams == {Absent, <<"b">>}

Endpoints ==
    {"config", "validate-path", "download-db", "download-link", "book-content", "covers"}
PostEndpoints == {"validate-path", "covers"}
\* JSON bodies of a POST: not JSON at all; null; [1]; {}; an object whose
\* library_path / paths is the number 5; an object with a path string / a list of paths.
Bodies == {"malformed", "null", "array", "empty", "wrongtype", "good"}
\* What the storage API does when called: returns, returns a result that says no
\* (valid = False), raises DropboxAuthError, raises another exception.
StorageOutcomes == {"ok", "bad", "auth_error", "error"}

\* book_paths[:25], the Dropbox batch limit
BatchLimit == 25

\* The bytes download_file can return for metadata.db.
AppContents ==
    {<<>>, ZIP_SIGNATURE, SubSeq(SQLITE_MAGIC, 1, 15), BadMagic, SQLITE_MAGIC,
     Pad(SQLITE_MAGIC, 20, 7)}
\* The paths of a covers request are the books 1..n; which books have a cover.
CoverCounts == {1, 2, BatchLimit, BatchLimit + 1}
CoverSets == {{}, {1}, {2, BatchLimit}, {BatchLimit + 1}, 1..(BatchLimit + 1)}

\* A request: headers, query, body kind, and what the outside will do while it is
\* served (the token in the environment, the storage API's behaviour and data).
Request(endpoint, password, library, path, body, token, storage, bytes, npaths, covers) ==
    [endpoint |-> endpoint, password |-> password, library |-> library, path |-> path,
     body |-> body, token |-> token, storage |-> storage, content |-> bytes,
     npaths |-> npaths, covers |-> covers]
RequestsTo(endpoint, bodies, storages, contents, counts, coversets) ==
    {Request(endpoint, pw, lib, path, body, token, st, c, n, cs) :
        pw \in PasswordHeaders, lib \in LibraryHeaders, path \in PathParams,
        body \in bodies, token \in BOOLEAN, st \in storages, c \in contents,
        n \in counts, cs \in coversets}
Requests ==
    RequestsTo("config", {"null"}, StorageOutcomes, {<<>>}, {0}, {{}})
    \cup RequestsTo("validate-path", Bodies, StorageOutcomes, {<<>>}, {0}, {{}})
    \cup RequestsTo("download-db", {"null"}, StorageOutcomes \ {"bad"}, AppContents, {0}, {{}})
    \cup RequestsTo("download-link", {"null"}, StorageOutcomes, {<<>>}, {0}, {{}})
    \cup RequestsTo("book-content", {"null"}, StorageOutcomes, {<<>>}, {0}, {{}})
    \cup RequestsTo("covers", Bodies \ {"good"}, StorageOutcomes, {<<>>}, {0}, {{}})
    \cup RequestsTo("covers", {"good"}, StorageOutcomes \ {"bad"}, {<<>>}, CoverCounts, CoverSets)
NoRequest == Request("none", Absent, Absent, Absent, "null", FALSE, "ok", <<>>, 0, {})

\* jsonify({...}), status; a binary Response; and what the framework answers when
\* an exception leaves the route.
Response(kind, mimetype, status, success, flag, exc, escaped, body, covers) ==
    [kind |-> kind, mimetype |-> mimetype, status |-> status, success |-> success,
     flag |-> flag, fault |-> exc, escaped |-> escaped, body |-> body, covers |-> covers]
Json(status, success, flag) ==
    Response("json", "application/json", status, success, flag, "none", FALSE, <<>>, {})
JsonCovers(covers) ==
    Response("json", "application/json", 200, "true", "none", "none", FALSE, <<>>, covers)
Caught(exc, status, flag) ==
    Response("json", "application/json", status, "false", flag, exc, FALSE, <<>>, {})
Binary(bytes, mimetype) ==
    Response("binary", mimetype, 200, "absent", "none", "none", FALSE, bytes, {})
Escaped(exc, status) ==
    Response("html", "text/html", status, "absent", "none", exc, TRUE, <<>>, {})
NoResponse == Response("none", "none", 0, "absent", "none", "none", FALSE, <<>>, {})

\* get_library_path
GetLibraryPath(req) == StrStrip(GetOr(req.library, <<>>))

\* Python's None, and "not x" for None and for a tuple.
PyNone == <<"None">>
Falsy(x) == x = PyNone \/ x = <<>>

\* get_dropbox_api: the pair (api, None) or (None, error_message).
GetDropboxApi(req) ==
    IF req.token THEN <<<<"DropboxAPI">>, PyNone>> ELSE <<PyNone, <<"error_message">>>>

\* try: <storage call> except DropboxAuthError ... except Exception ...
\* with the answers to a result that says yes and to one that says no.
TryStorage(req, yes, no) ==
    CASE req.storage = "ok" -> yes
      [] req.storage = "bad" -> no
      [] req.storage = "auth_error" -> Caught("DropboxAuthError", 401, "DROPBOX_AUTH_FAILED")
      [] OTHER -> Caught("Exception", 500, "none")

\* What a route did: its response, the calls it made on the storage API, and the
\* paths it passed to get_thumbnails_batch.
Served(resp, calls) == [resp |-> resp, calls |-> calls, passed |-> <<>>]
ServedBatch(resp, passed) == [resp |-> resp, calls |-> 1, passed |-> passed]

\* require_auth's comparison of the stripped header with APP_PASSWORD
InvalidPasswordNever(provided, expected) == FALSE
InvalidPassword(provided, expected) == provided # expected

\* api is the pair itself here, and a pair is not None.
ApiConfigHandler(req) ==
    Served(Json(200, "absent",
                IF GetDropboxApi(req) # PyNone THEN "token_configured"
                ELSE "token_not_configured"), 0)

ApiValidatePathHandler(req) ==
    IF Falsy(GetDropboxApi(req)[1])
    THEN Served(Json(401, "false", "DROPBOX_AUTH_FAILED"), 0)
    ELSE CASE req.body = "malformed" -> Served(Escaped("BadRequest", 400), 0)
           [] req.body \in {"array", "wrongtype"} -> Served(Escaped("AttributeError", 500), 0)
           [] req.body \in {"null", "empty"} -> Served(Json(400, "false", "none"), 0)
           [] OTHER ->
                Served(TryStorage(req, Json(200, "true", "none"), Json(400, "false", "none")), 1)

DownloadDbHandler(req) ==
    IF Falsy(GetDropboxApi(req)[1])
    THEN Served(Json(401, "false", "DROPBOX_AUTH_FAILED"), 0)
    ELSE IF GetLibraryPath(req) = <<>>
    THEN Served(Json(400, "false", "none"), 0)
    ELSE Served(TryStorage(req,
                           IF ~HasSQLiteHeader(req.content)
                           THEN Json(500, "false", "not_sqlite")
                           ELSE Binary(req.content, "application/x-sqlite3"),
                           Json(500, "false", "not_sqlite")), 1)

DownloadLinkHandler(req) ==
    IF Falsy(GetDropboxApi(req)[1])
    THEN Served(Json(401, "false", "DROPBOX_AUTH_FAILED"), 0)
    ELSE IF GetLibraryPath(req) = <<>>
    THEN Served(Json(400, "false", "none"), 0)
    ELSE IF StrStrip(GetOr(req.path, <<>>)) = <<>>
    THEN Served(Json(400, "false", "none"), 0)
    ELSE Served(TryStorage(req, Json(200, "true", "none"), Json(200, "true", "none")), 1)

\* api is the pair itself here: never falsy, and without a download_file to call.
BookContentHandler(req) ==
    IF Falsy(GetDropboxApi(req))
    THEN Served(Json(500, "false", "token_not_configured"), 0)
    ELSE IF GetLibraryPath(req) = <<>>
    THEN Served(Json(400, "false", "none"), 0)
    ELSE IF StrStrip(GetOr(req.path, <<>>)) = <<>>
    THEN Served(Json(400, "false", "none"), 0)
    ELSE Served(Caught("AttributeError", 500, "none"), 0)

\* data.get('paths', []) of a body with a list of paths: the books 1..n.
BookPaths(req) == [i \in 1..req.npaths |-> i]

\* book_paths[:25], and the list passed whole.
FirstBatchWhole(paths) == paths
FirstBatch(paths) == SubSeq(paths, 1, Min(Len(paths), BatchLimit))

\* f"{library_path}/{path}/cover.jpg"
CoverPath(lib, path) == [library |-> lib, book |-> path]

\* get_thumbnails_batch: one result for each path, in the order of the paths, with a
\* thumbnail where the cover is there; more than 25 paths are refused.
GetThumbnailsBatch(req, cover_paths) ==
    [i \in 1..Len(cover_paths) |->
        [path |-> cover_paths[i], thumbnail |-> cover_paths[i].book \in req.covers]]

GetCoversHandler(req) ==
    IF Falsy(GetDropboxApi(req)[1])
    THEN Served(Json(401, "false", "DROPBOX_AUTH_FAILED"), 0)
    ELSE IF GetLibraryPath(req) = <<>>
    THEN Served(Json(400, "false", "none"), 0)
    ELSE CASE req.body = "malformed" -> Served(Escaped("BadRequest", 400), 0)
           [] req.body = "array" -> Served(Escaped("AttributeError", 500), 0)
           [] req.body = "wrongtype" -> Served(Escaped("TypeError", 500), 0)
           [] req.body \in {"null", "empty"} -> Served(JsonCovers({}), 0)
           [] OTHER ->
                LET book_paths == FirstBatch(BookPaths(req))
                    cover_paths == [i \in 1..Len(book_paths) |->
                                      CoverPath(GetLibraryPath(req), book_paths[i])]
                    results == GetThumbnailsBatch(req, cover_paths)
                IN  IF Len(cover_paths) > BatchLimit
                    THEN ServedBatch(Caught("ValueError", 500, "none"), cover_paths)
                    ELSE ServedBatch(
                            TryStorage(req,
                                JsonCovers({book_paths[i] : i \in {j \in 1..Len(results) :
                                                                    results[j].thumbnail}}),
                                JsonCovers({})),
                            cover_paths)

AppIdle ==
    /\ APP_PASSWORD = <<>>
    /\ apc = "idle"
    /\ areq = NoRequest
    /\ aresp = NoResponse
    /\ arun = FALSE
    /\ acalls = 0
    /\ apassed = <<>>

AppInit ==
    /\ APP_PASSWORD \in {StrStrip(GetOr(v, <<>>)) : v \in EnvPasswords}
    /\ apc = "idle"
    /\ areq = NoRequest
    /\ aresp = NoResponse
    /\ arun = FALSE
    /\ acalls = 0
    /\ apassed = <<>>

AppRequest ==
    /\ apc = "idle"
    /\ areq' \in Requests
    /\ apc' = "auth"
    /\ UNCHANGED <<APP_PASSWORD, aresp, arun, acalls, apassed>>
    /\ UNCHANGED offApp

\* decorated() of require_auth
RequireAuth ==
    /\ apc = "auth"
    /\ LET provided_password == StrStrip(GetOr(areq.password, <<>>))
       IN  IF APP_PASSWORD = <<>>
           THEN aresp' = Json(503, "false", "misconfigured") /\ apc' = "done" /\ arun' = FALSE
           ELSE IF provided_password = <<>>
           THEN aresp' = Json(401, "false", "auth_required") /\ apc' = "done" /\ arun' = FALSE
           ELSE IF InvalidPassword(provided_password, APP_PASSWORD)
           THEN aresp' = Json(401, "false", "auth_required") /\ apc' = "done" /\ arun' = FALSE
           ELSE aresp' = aresp /\ apc' = "handler" /\ arun' = TRUE
    /\ UNCHANGED <<APP_PASSWORD, areq, acalls, apassed>>
    /\ UNCHANGED offApp

\* return <response> of a route
Respond(served) ==
    /\ aresp' = served.resp
    /\ acalls' = acalls + served.calls
    /\ apassed' = served.passed
    /\ apc' = "done"
    /\ UNCHANGED <<APP_PASSWORD, areq, arun>>
    /\ UNCHANGED offApp

ApiConfig ==
    /\ apc = "handler"
    /\ areq.endpoint = "config"
    /\ Respond(ApiConfigHandler(areq))

ApiValidatePath ==
    /\ apc = "handler"
    /\ areq.endpoint = "validate-path"
    /\ Respond(ApiValidatePathHandler(areq))

DownloadDb ==
    /\ apc = "handler"
    /\ areq.endpoint = "download-db"
    /\ Respond(DownloadDbHandler(areq))

DownloadLink ==
    /\ apc = "handler"
    /\ areq.endpoint = "download-link"
    /\ Respond(DownloadLinkHandler(areq))

BookContent ==
    /\ apc = "handler"
    /\ areq.endpoint = "book-content"
    /\ Respond(BookContentHandler(areq))

GetCovers ==
    /\ apc = "handler"
    /\ areq.endpoint = "covers"
    /\ Respond(GetCoversHandler(areq))

\* The response is sent; the next request starts from nothing.
AppReturn ==
    /\ apc = "done"
    /\ apc' = "idle"
    /\ areq' = NoRequest
    /\ aresp' = NoResponse
    /\ arun' = FALSE
    /\ acalls' = 0
    /\ apassed' = <<>>
    /\ UNCHANGED APP_PASSWORD
    /\ UNCHANGED offApp

(***************************************************************************)
(* DropboxSync: the constructor and _get_download_url                      *)
(***************************************************************************)

\* Most pieces a modelled link is put together from.
MaxPieces == 4

\* Pieces of links: text, separators, a parameter, the download-mode parameter's
\* name, values, and a folder-link marker.
LinkPieces ==
    {<<"h">>, <<"/">>, <<"?">>, <<"&">>, <<"k", "=", "v">>, <<"d", "l", "=">>, <<"0">>, <<"1">>,
     <<"/", "s", "h", "/">>}

RECURSIVE Concat(_)
Concat(pieces) == IF pieces = <<>> THEN <<>> ELSE Head(pieces) \o Concat(Tail(pieces))
SharedLinks == {Concat(ps) : ps \in UNION {[1..n -> LinkPieces] : n \in 0..MaxPieces}}

\* sub in s
Contains(s, sub) ==
    \E i \in 1..(Len(s) - Len(sub) + 1) : SubSeq(s, i, i + Len(sub) - 1) = sub

\* s.replace(old, new): every occurrence, left to right, without overlap.
RECURSIVE StrReplace(_, _, _)
StrReplace(s, old, new) ==
    IF Len(s) < Len(old) THEN s
    ELSE IF SubSeq(s, 1, Len(old)) = old
    THEN new \o StrReplace(SubSeq(s, Len(old) + 1, Len(s)), old, new)
    ELSE <<Head(s)>> \o StrReplace(Tail(s), old, new)

Dl == <<"d", "l", "=">>
Dl0 == <<"d", "l", "=", "0">>
Dl1 == <<"d", "l", "=", "1">>

\* folder_patterns of _validate_url
FolderPatterns == {<<"/", "s", "c", "l", "/", "f", "o", "/">>, <<"/", "s", "h", "/">>}

\* DropboxSync.__init__: whether it raises ValueError for the link.
Rejects(link) ==
    \/ link = <<>>
    \/ \E pattern \in FolderPatterns : Contains(RStripSlash(link), pattern)

\* _get_download_url
GetDownloadUrl(url) ==
    IF Contains(url, Dl0) THEN StrReplace(url, Dl0, Dl1)
    ELSE IF Contains(url, <<"?">>) /\ ~Contains(url, Dl) THEN url \o <<"&">> \o Dl1
    ELSE IF ~Contains(url, <<"?">>) THEN url \o <<"?">> \o Dl1
    ELSE url

LinkIdle ==
    /\ lpc = "none"
    /\ shared_link = <<>>
    /\ lurl = <<>>

\* DropboxSync(shared_link)
NewDropboxSync ==
    /\ lpc = "none"
    /\ \E link \in SharedLinks :
        IF Rejects(link)
        THEN lpc' = "rejected" /\ shared_link' = <<>>
        ELSE lpc' = "made" /\ shared_link' = RStripSlash(link)
    /\ UNCHANGED lurl
    /\ UNCHANGED offLink

\* self._get_download_url()
CallGetDownloadUrl ==
    /\ lpc = "made"
    /\ lurl' = GetDownloadUrl(shared_link)
    /\ lpc' = "url"
    /\ UNCHANGED shared_link
    /\ UNCHANGED offLink

\* The object is dropped.
LinkReturn ==
    /\ lpc \in {"rejected", "url"}
    /\ lpc' = "none"
    /\ shared_link' = <<>>
    /\ lurl' = <<>>
    /\ UNCHANGED offLink

(***************************************************************************)
(* The specifications                                                      *)
(***************************************************************************)

\* The write path runs with the staleness check and the filesystem store at rest: a
\* server on UTC, a remote that does not answer, a store rooted at /.
PathIdle == pbase = <<"/">> /\ pin = <<>> /\ pout = NoResult
DropboxIdle == DropboxInit({[n \in FolderNames |-> "none"]})
NeedIdle == NeedInit({0}, {[ok |-> FALSE, hdr |-> NoHeader]})
FixtureIdle == fpc = "done" /\ fbooks = <<>>
MoreIdle == DownloadInit /\ CatalogInit({NoLibrary}) /\ FixtureIdle /\ AppIdle /\ LinkIdle

Init == SyncInit /\ ReadInit /\ PathIdle /\ DropboxIdle /\ NeedIdle /\ MoreIdle

\* One sync call at a time, beside one reader.
NextOne == SyncStep(1, Contents) \/ ROpen \/ RRead \/ REof \/ RClose
SpecOne == Init /\ [][NextOne]_vars

\* Two sync calls on the same local path, as two concurrent requests make them.
NextRace == \E p \in Syncers : SyncStep(p, RaceContents)
SpecRace == Init /\ [][NextRace]_vars

\* The staleness check, between syncs and changes of the remote.
NextNeed ==
    \/ SyncOk
    \/ ConnectCreatesEmpty
    \/ RemoteChanges
    \/ NeedsSyncLocal
    \/ NeedsSyncRemote
    \/ NeedsSyncReturn
InitNeed ==
    /\ SyncInit /\ ReadInit /\ PathIdle /\ DropboxIdle /\ MoreIdle
    /\ NeedInit(TzOffsets, HeadOutcomes)
SpecNeed == InitNeed /\ [][NextNeed]_vars

\* Calls into the filesystem store, for every base directory.
InitPath ==
    /\ SyncInit /\ ReadInit /\ PathInit /\ DropboxIdle /\ MoreIdle
    /\ NeedInit({0}, {[ok |-> FALSE, hdr |-> NoHeader]})
NextPath ==
    \/ CallResolvePath
    \/ CallDownloadFile
    \/ CallValidateLibraryPath
    \/ CallThumbnail
    \/ PathReturn
SpecPath == InitPath /\ [][NextPath]_vars

\* Calls into the Dropbox client, for every remote store.
InitDropbox ==
    /\ SyncInit /\ ReadInit /\ PathIdle /\ MoreIdle
    /\ NeedInit({0}, {[ok |-> FALSE, hdr |-> NoHeader]})
    /\ DropboxInit([FolderNames -> EntryKinds])
NextDropbox ==
    \/ ValidateStart
    \/ ValidatePrimary
    \/ ValidateList
    \/ ValidateProbe
    \/ ValidateCompose
    \/ ValidateReturn
    \/ CallGetMetadata
    \/ GetMetadataReturn
SpecDropbox == InitDropbox /\ [][NextDropbox]_vars

\* download_file of both stores: the filesystem store under every base directory,
\* the Dropbox client against two remote stores.
DownloadStores ==
    {[n \in FolderNames |-> IF n = "F" THEN "file" ELSE "library"],
     [n \in FolderNames |-> IF n = "F" THEN "none" ELSE "folder"]}
\* The server is on one backend at a time (STORAGE_BACKEND): one call at a time.
LocalDownloadFile == dout = "idle" /\ CallDownloadFile
InitDownload ==
    /\ SyncInit /\ ReadInit /\ PathInit /\ NeedIdle
    /\ DropboxInit(DownloadStores)
    /\ MoreIdle
NextDownload ==
    \/ LocalDownloadFile
    \/ PathReturn
    \/ CallDropboxDownloadFile
    \/ DropboxDownloadReturn
SpecDownload == InitDownload /\ [][NextDownload]_vars

\* Calls into the catalog, for every library with the tables of Calibre.
InitCatalog ==
    /\ SyncInit /\ ReadInit /\ PathIdle /\ DropboxIdle /\ NeedIdle /\ DownloadInit
    /\ FixtureIdle /\ AppIdle /\ LinkIdle
    /\ CatalogInit(Libraries(CalibreTables))
NextCatalog ==
    \/ GetBooksStart
    \/ GetBooksPage
    \/ SearchBooksStart
    \/ SearchBooksPage
    \/ DetailPrimary
    \/ DetailAux
    \/ CatalogReturn
SpecCatalog == InitCatalog /\ [][NextCatalog]_vars

\* The fixture generator, and calls into the catalog of the database it leaves (before
\* it has run, sqlite3.connect finds no file and makes an empty one, without tables).
InitFixture ==
    /\ SyncInit /\ ReadInit /\ PathIdle /\ DropboxIdle /\ NeedIdle /\ DownloadInit
    /\ CatalogInit({[books |-> <<>>, tables |-> {}, distinctSep |-> FALSE]})
    /\ FixtureInit /\ AppIdle /\ LinkIdle
NextFixture ==
    \/ GenerateBook
    \/ CreateFixtureDatabase
    \/ GetBooksStart
    \/ GetBooksPage
    \/ SearchBooksStart
    \/ SearchBooksPage
    \/ DetailPrimary
    \/ DetailAux
    \/ CatalogReturn
SpecFixture == InitFixture /\ [][NextFixture]_vars

\* The web application serving one request after another.
InitApp ==
    /\ SyncInit /\ ReadInit /\ PathIdle /\ DropboxIdle /\ NeedIdle /\ DownloadInit
    /\ CatalogInit({NoLibrary}) /\ FixtureIdle
    /\ AppInit /\ LinkIdle
NextApp ==
    \/ AppRequest
    \/ RequireAuth
    \/ ApiConfig
    \/ ApiValidatePath
    \/ DownloadDb
    \/ DownloadLink
    \/ BookContent
    \/ GetCovers
    \/ AppReturn
SpecApp == InitApp /\ [][NextApp]_vars

\* DropboxSync objects made from every link, and their download URLs.
InitLink ==
    /\ SyncInit /\ ReadInit /\ PathIdle /\ DropboxIdle /\ NeedIdle /\ DownloadInit
    /\ CatalogInit({NoLibrary}) /\ FixtureIdle /\ AppIdle
    /\ LinkIdle
NextLink ==
    \/ NewDropboxSync
    \/ CallGetDownloadUrl
    \/ LinkReturn
SpecLink == InitLink /\ [][NextLink]_vars

(***************************************************************************)
(* Properties of the write path                                            *)
(***************************************************************************)

\* A body that passed the signature check, whole.
IsCompleteDatabase(b) == b \in Contents /\ StartsWith(b, SQLITE_MAGIC)

\* C1: under any interleaving of concurrent sync calls on one local path, the local
\* file is absent or holds the complete bytes of one validated download; it is
\* never empty, truncated or partly written.
C1_LocalAbsentOrComplete == LocalExists => IsCompleteDatabase(LocalBytes)

\* C2: a sync call whose download does not start with the 16-byte SQLite signature
\* raises (it only ever moves to "downloaded" and from there to "raised"), and no
\* step of the call changes the directory or any file: the local metadata.db stays
\* absent, or keeps its bytes.
C2_BadSignatureRaisesAndLeavesLocal ==
    [][\A p \in Syncers :
        (pc'[p] # pc[p] /\ pc'[p] # "idle" /\ ~StartsWith(content'[p], SQLITE_MAGIC))
            => /\ pc'[p] \in {"downloaded", "raised"}
               /\ pc[p] = "downloaded" => pc'[p] = "raised"
               /\ dir' = dir
               /\ ino' = ino]_vars

\* A call has raised on a body without the signature while an earlier sync's
\* database is in place, whole.
C2_Witness ==
    /\ pc[1] = "raised"
    /\ fault[1] \in {"invalid", "zip"}
    /\ ~StartsWith(content[1], SQLITE_MAGIC)
    /\ LocalExists
    /\ IsCompleteDatabase(LocalBytes)
    /\ LocalBytes = installed

\* C3: with one sync in progress, a reader reads exactly the version that was in
\* place when it opened the file (the prior one if it opened before the replace, the
\* new one if after): what it has read so far is a prefix of that version, at end
\* of file it has all of it, and that version is a whole database (or the empty
\* file the reader itself created when there was none).
C3_ReaderReadsOneWholeVersion ==
    rpc # "idle" =>
        /\ rsnap = <<>> \/ IsCompleteDatabase(rsnap)
        /\ roff <= Len(rsnap)
        /\ rbuf = SubSeq(rsnap, 1, Min(roff, Len(rsnap)))
        /\ rpc = "done" => rbuf = rsnap

\* A reader has read the whole prior database although a sync replaced the file
\* while it was reading.
C3_Witness ==
    /\ rpc = "done"
    /\ IsCompleteDatabase(rbuf)
    /\ rbuf = rsnap
    /\ installed # rsnap
    /\ LocalBytes = installed

(***************************************************************************)
(* Properties of needs_sync                                                *)
(***************************************************************************)

RemoteUnavailable == ~head.ok \/ head.hdr.kind # "date"

C5_FreshSyncNotStale ==
    (/\ npc = "done"
     /\ lastEvent = "sync"
     /\ ~RemoteUnavailable
     /\ head.hdr.zone = 0
     /\ head.hdr.wall = lstat.mtime)
        => ~nres

(***************************************************************************)
(* Properties of the filesystem store                                      *)
(***************************************************************************)

\* C6: _resolve_path raises, or returns the base directory or a path below it; it
\* never returns a path outside the base directory, such as a sibling whose name
\* begins with the base directory's name.
C6_ResolveStaysInBase ==
    (pout.op = "resolve" /\ pout.r.ok) => Inside(pout.r.path, pbase)

\* Where "../../etc/passwd" leads from the base directory.
EtcPasswdTarget == NormPath(PathJoin(pbase, LStripSlash(pin)))

\* C7: for "../../etc/passwd", with or without a leading slash, leading out of the
\* base directory: download_file raises the path-traversal fault before any
\* existence check or read, and neither validate_library_path nor
\* get_thumbnails_batch returns content or metadata of a file outside the base.
C7_EtcPasswdIsRefused ==
    (/\ pout.op \in {"download", "validate", "thumbnail"}
     /\ pin \in TraversalPaths
     /\ ~Inside(EtcPasswdTarget, pbase))
        => /\ pout.op = "download" =>
                pout.r.fault = "traversal" /\ ~pout.r.statted /\ pout.r.body = NoPath
           /\ pout.op = "validate" => pout.r.meta = NoPath
           /\ pout.op = "thumbnail" => pout.r.image = NoPath

(***************************************************************************)
(* Properties of the validators                                            *)
(***************************************************************************)

\* The local store holds exactly one library folder and the request names a path
\* beside it that does not exist.
LocalOneLibraryOtherPath ==
    /\ pout.op = "validate"
    /\ Cardinality(LocalSuggestions(pbase)) = 1
    /\ LET r == ResolvePath(pbase, pin) IN
        /\ r.ok /\ Inside(r.path, pbase) /\ r.path # pbase
        /\ ~Exists(r.path)
        /\ \A i \in (Len(PathJoin(pbase, <<>>)) + 1)..Len(r.path) : r.path[i] # "/"

\* The remote store holds exactly one library folder, the request names a top-level
\* path that does not exist, and every request was answered as the store stands.
DropboxOneLibraryOtherPath ==
    /\ vpc = "done"
    /\ Cardinality({n \in FolderNames : store[n] = "library"}) = 1
    /\ \E n \in FolderNames : store[n] = "none" /\ vlib = FolderPath(n)
    /\ \A i \in 1..Len(vlog) : vlog[i] \notin Failures

LocalSuggestsTheLibrary ==
    LocalOneLibraryOtherPath =>
        /\ ~pout.r.valid
        /\ LocalSuggestions(pbase) \subseteq pout.r.suggestions

DropboxSuggestsTheLibrary ==
    DropboxOneLibraryOtherPath =>
        /\ vout.kind = "returned" /\ ~vout.valid
        /\ \A n \in FolderNames :
            store[n] = "library" => \E i \in 1..Len(vout.suggestions) :
                                        vout.suggestions[i] = FolderPath(n)

\* C8: in both validators, when the store has exactly one top-level folder F with a
\* metadata.db and validation is asked for a sibling path that does not exist, the
\* result is valid=false and its message names "/F" as a suggestion.
C8_OneLibraryIsSuggested == LocalSuggestsTheLibrary /\ DropboxSuggestsTheLibrary

\* The primary probe of <path>/metadata.db came back absent.
PrimaryAbsent ==
    /\ Len(vlog) >= 1
    /\ vlog[1].net = "ok" /\ vlog[1].status = 409 /\ vlog[1].tag = "path"

\* "/<folder>" for each folder of the listing whose probe was answered with the
\* metadata of a file, in listing order.
ProbesThatSucceeded ==
    LET hit == SelectSeq([i \in 1..Len(vfolders) |-> i],
                         LAMBDA i : i + 2 <= Len(vlog) /\ vlog[i + 2] = Success)
    IN  [k \in 1..Len(hit) |-> FolderPath(vfolders[hit[k]])]

C10_GetMetadataOutcomes ==
    gout # "idle" =>
        /\ gout = "none" <=>
            (gresp.net = "ok" /\ gresp.status = 409 /\ gresp.body = "error"
             /\ gresp.tag = "path" /\ gresp.sub = "not_found")
        /\ gout = "record" <=>
            (gresp.net = "ok" /\ gresp.status < 400 /\ gresp.body # "text")
        /\ gout \in {"none", "record", "raise"}

(***************************************************************************)
(* Properties of the checks on a download and of its one request           *)
(***************************************************************************)

\* C12: in every sync variant, a download shorter than the 100-byte threshold makes
\* the call raise, also when it starts with the SQLite signature: the call never
\* gets past the checks, so it opens no temp file and writes nothing.
C12_TooSmallRaisesInEveryVariant ==
    \A p \in Syncers :
        (Len(content[p]) < MinSize /\ pc[p] \notin {"idle", "downloaded"})
            => pc[p] = "raised" /\ fd[p] = None

\* C13 as claimed: whenever the download begins with the ZIP local-file-header
\* bytes, DropboxSync.sync raises the folder-link fault, whatever the length.
C13_ZipAlwaysFolderLinkFault ==
    \A p \in Syncers :
        (variant[p] = "link" /\ pc[p] \notin {"idle", "downloaded"}
         /\ StartsWith(content[p], ZIP_SIGNATURE))
            => pc[p] = "raised" /\ fault[p] = "zip"

\* C13, amended: whenever a download of at least 100 bytes begins with the ZIP
\* local-file-header bytes, DropboxSync.sync raises the folder-link fault and not
\* the invalid-database or too-small fault; a shorter download raises the
\* too-small fault, ZIP or not.
C13_ZipFolderLinkFaultFromMinSize ==
    \A p \in Syncers :
        (variant[p] = "link" /\ pc[p] \notin {"idle", "downloaded"}
         /\ StartsWith(content[p], ZIP_SIGNATURE))
            => /\ pc[p] = "raised"
               /\ fault[p] = IF Len(content[p]) >= MinSize THEN "zip" ELSE "too_small"

\* DropboxSync.sync has raised the folder-link fault on a ZIP body of full length.
C13_Witness ==
    /\ pc[1] = "raised"
    /\ variant[1] = "link"
    /\ fault[1] = "zip"
    /\ StartsWith(content[1], ZIP_SIGNATURE)
    /\ Len(content[1]) >= MinSize

C11_DownloadFaultsAreDistinct ==
    /\ (pout # NoResult /\ pout.op = "download") =>
        LET target == ResolvePath(pbase, pin) IN
        /\ pout.r.fault = "none" <=> (target.ok /\ IsFile(target.path))
        /\ pout.r.fault = "none" => pout.r.body = target.path
        /\ pout.r.fault = "not_found" <=> (target.ok /\ ~Exists(target.path))
        /\ pout.r.fault = "not_file" <=>
            (target.ok /\ Exists(target.path) /\ ~IsFile(target.path))
        /\ pout.r.fault = "traversal" <=> ~target.ok
    /\ dout # "idle" =>
        IF dresp \in DownloadFailures THEN dout = "failed"
        ELSE /\ dout = "content" <=> RemoteKind(store, dpath) = "file"
             /\ dout = "not_found" <=> RemoteKind(store, dpath) = "none"
             /\ dout = "not_file" <=> RemoteKind(store, dpath) = "folder"

\* The Dropbox client has raised 'Path is not a file' for a folder.
C11_Witness ==
    /\ dout = "not_file"
    /\ RemoteKind(store, dpath) = "folder"
    /\ dresp = HonestDownload(store, dpath)

\* The filesystem store has raised 'Path is not a file' for a directory.
C11_LocalNotFile ==
    /\ pout # NoResult
    /\ pout.op = "download"
    /\ pout.r.fault = "not_file"

(***************************************************************************)
(* Properties of the catalog queries                                       *)
(***************************************************************************)

BookIds == DOMAIN db.books
SortKey(id) == db.books[id].sort
DistinctSortKeys == \A x, y \in BookIds : x # y => SortKey(x) # SortKey(y)

\* The paging has reached its end: the last page fetched is empty.
PagingDone == cpages # <<>> /\ cpages[Len(cpages)].rows = <<>>

\* The ids on the pages fetched so far, in the order fetched.
RECURSIVE Flatten(_)
Flatten(pages) ==
    IF pages = <<>> THEN <<>>
    ELSE Flatten(SubSeq(pages, 1, Len(pages) - 1))
         \o [i \in 1..Len(pages[Len(pages)].rows) |-> pages[Len(pages)].rows[i].id]

\* b can stand at position q (counted from 1) of the books ordered by sort key.
CanStandAt(b, q) ==
    /\ Cardinality({c \in BookIds : SortLess(SortKey(c), SortKey(b))}) <= q - 1
    /\ Cardinality({c \in BookIds : ~SortLess(SortKey(b), SortKey(c))}) >= q

\* C14: every page of get_books reports the number of books as total; page k holds
\* the books at positions (k-1)*per_page+1 .. k*per_page of the books ordered by sort
\* key (at most per_page rows, fewer only at the end), one row per book; and when
\* the sort keys are distinct, the pages up to the last together hold every book
\* exactly once.
C14_PagesAreSlicesOfSortedBooks ==
    cargs.op = "list" =>
        /\ \A k \in 1..Len(cpages) :
            LET first == (k - 1) * cargs.per_page IN
            /\ cpages[k].fault = "none"
            /\ cpages[k].total = Cardinality(BookIds)
            /\ Len(cpages[k].rows) =
                   Max(0, Min(cargs.per_page, Cardinality(BookIds) - first))
            /\ \A i \in 1..Len(cpages[k].rows) :
                /\ cpages[k].rows[i].id \in BookIds
                /\ CanStandAt(cpages[k].rows[i].id, first + i)
                /\ \A j \in 1..Len(cpages[k].rows) :
                    cpages[k].rows[i].id = cpages[k].rows[j].id => i = j
        /\ (PagingDone /\ DistinctSortKeys) =>
            /\ Len(cpages) - 1 = (Cardinality(BookIds) + cargs.per_page - 1) \div cargs.per_page
            /\ \A b \in BookIds :
                Cardinality({q \in 1..Len(Flatten(cpages)) : Flatten(cpages)[q] = b}) = 1

\* A client has paged through three books with distinct sort keys, two at a time.
C14_Witness ==
    /\ cargs.op = "list"
    /\ cargs.per_page = 2
    /\ Cardinality(BookIds) = 3
    /\ DistinctSortKeys
    /\ PagingDone
    /\ Len(cpages) = 3
    /\ Len(cpages[2].rows) = 1

\* text contains term as a substring, without regard to ASCII case.
ContainsCI(text, term) ==
    \E k \in 0..(Len(text) - Len(term)) :
        \A i \in 1..Len(term) : ToLower(text[k + i]) = ToLower(term[i])

\* The books whose title, or the name of one of whose authors, contains the term.
BooksContaining(term) ==
    {b \in BookIds :
        \/ ContainsCI(db.books[b].title, term)
        \/ \E a \in db.books[b].authors : ContainsCI(a, term)}

\* C16: every page of search_books(term) reports as total the number of books whose
\* title or one of whose authors' names contains the term as a case-insensitive
\* substring and lists only such books, and the pages together list each of them
\* exactly once.
C16_SearchIsSubstringMatch ==
    cargs.op = "search" =>
        /\ \A k \in 1..Len(cpages) :
            /\ cpages[k].fault = "none"
            /\ cpages[k].total = Cardinality(BooksContaining(cargs.term))
            /\ \A i \in 1..Len(cpages[k].rows) :
                cpages[k].rows[i].id \in BooksContaining(cargs.term)
        /\ PagingDone =>
            \A b \in BooksContaining(cargs.term) :
                Cardinality({q \in 1..Len(Flatten(cpages)) : Flatten(cpages)[q] = b}) = 1

\* C17: get_book_detail for an id that is not in books returns None after the
\* primary query alone, without raising; for an id that is in books it runs the five
\* auxiliary queries in order and returns one record of that book with all five
\* fields.
C17_DetailOfMissingIdIsNone ==
    cargs.op = "detail" =>
        IF cargs.id \notin BookIds
        THEN cpc = "done" /\ cout = NotFound /\ clog = <<"book">>
        ELSE /\ cpc \in {"aux", "done"}
             /\ cout.kind = "record"
             /\ cout.id = cargs.id
             /\ clog = <<"book">> \o SubSeq(AuxQueries, 1, Len(clog) - 1)
             /\ cpc = "done" =>
                 /\ Len(clog) = 1 + Len(AuxQueries)
                 /\ cout.fields = {AuxQueries[i] : i \in 1..Len(AuxQueries)}

\* get_book_detail has returned None for an id that a library of two books lacks.
C17_Witness ==
    /\ cargs.op = "detail"
    /\ Cardinality(BookIds) = 2
    /\ cargs.id \notin BookIds
    /\ cout = NotFound
    /\ clog = <<"book">>

(***************************************************************************)
(* Properties of the fixture                                               *)
(***************************************************************************)

CanaryId == FixtureBooks + 1

\* C15: on the generated fixture, get_books reports num_books + 1 books and has the
\* canary on its first page, because the canary's sort key is strictly smaller than
\* the sort key of every generated book.
C15_CanarySortsFirst ==
    fpc = "done" =>
        /\ \A i \in 1..FixtureBooks : StrLess(db.books[CanaryId].sort, db.books[i].sort)
        /\ (cargs.op = "list" /\ cpages # <<>>) =>
            /\ cpages[1].total = FixtureBooks + 1
            /\ \E i \in 1..Len(cpages[1].rows) : cpages[1].rows[i].id = CanaryId

\* The first page of the fixture's list, two books to the page, is without the canary.
CanaryOffFirstPage ==
    /\ fpc = "done"
    /\ cargs.op = "list"
    /\ cargs.per_page = 2
    /\ cpages # <<>>
    /\ \A i \in 1..Len(cpages[1].rows) : cpages[1].rows[i].id # CanaryId

(***************************************************************************)
(* Properties of the web application                                       *)
(***************************************************************************)

AuthenticatedEndpoints ==
    {"validate-path", "download-db", "download-link", "book-content", "covers"}

\* C18: on every authenticated endpoint, a fault raised while the request is served
\* ends in a JSON response with success false and status 401 (DropboxAuthError) or
\* 500 (any other exception), and no exception leaves the route handler.
C18_FaultsEndInJsonFailure ==
    (apc = "done" /\ areq.endpoint \in AuthenticatedEndpoints /\ aresp.fault # "none") =>
        /\ ~aresp.escaped
        /\ aresp.kind = "json"
        /\ aresp.success = "false"
        /\ aresp.status = (IF aresp.fault = "DropboxAuthError" THEN 401 ELSE 500)

\* The faults of the storage call, which the handlers' try blocks enclose, do end so.
StorageFaultsEndInJsonFailure ==
    (apc = "done" /\ acalls > 0 /\ aresp.fault # "none") =>
        /\ ~aresp.escaped
        /\ aresp.kind = "json"
        /\ aresp.success = "false"
        /\ aresp.status = (IF aresp.fault = "DropboxAuthError" THEN 401 ELSE 500)

PasswordAccepted ==
    /\ APP_PASSWORD # <<>>
    /\ areq.password # Absent
    /\ StrStrip(areq.password) = APP_PASSWORD

\* C20: behind require_auth the handler runs only when APP_PASSWORD is non-empty and the
\* stripped X-App-Password header equals it; with APP_PASSWORD empty the response is
\* 503 with misconfigured, whatever the header; with the header missing or different it
\* is 401 with auth_required; in both cases the handler is not run and no storage call
\* is made.
C20_HandlerRunsOnlyWithPassword ==
    /\ arun => PasswordAccepted
    /\ acalls > 0 => arun
    /\ (apc = "done" /\ APP_PASSWORD = <<>>) =>
        /\ aresp.status = 503 /\ aresp.flag = "misconfigured" /\ aresp.kind = "json"
        /\ ~arun /\ acalls = 0
    /\ (apc = "done" /\ APP_PASSWORD # <<>> /\ ~PasswordAccepted) =>
        /\ aresp.status = 401 /\ aresp.flag = "auth_required" /\ aresp.kind = "json"
        /\ ~arun /\ acalls = 0

\* A request with a wrong password has been turned away by a server that has one.
C20_Witness ==
    /\ apc = "done"
    /\ APP_PASSWORD = <<"p">>
    /\ areq.password = <<"q">>
    /\ aresp.status = 401
    /\ ~arun

\* A request with the password between spaces has reached the storage API.
StrippedPasswordServed ==
    /\ apc = "done"
    /\ areq.password = <<" ", "p", " ">>
    /\ acalls = 1

(***************************************************************************)
(* Properties of the library-path normalization                            *)
(***************************************************************************)

\* C21: the normalized library path has exactly one leading "/" and no trailing "/",
\* normalizing it again changes nothing, and the file probed is
\* <normalized path>/metadata.db.
C21_NormalizedPathHasOneLeadingSlash ==
    vpc # "idle" =>
        /\ vlib # <<>> /\ vlib[1] = "/"
        /\ (Len(vlib) > 1 => vlib[2] # "/")
        /\ vlib[Len(vlib)] # "/"
        /\ NormalizeLibraryPath(vlib) = vlib

\* Whatever the input, the result has no trailing "/" and is a fixed point.
NormalizedPathIsStrippedFixedPoint ==
    vpc # "idle" =>
        /\ (vlib # <<>> => vlib[Len(vlib)] # "/")
        /\ NormalizeLibraryPath(vlib) = vlib

\* A validation stands on a path that begins with two separators.
DoubleSlashLibrary ==
    /\ vpc = "primary"
    /\ Len(vlib) = 3 /\ vlib[1] = "/" /\ vlib[2] = "/"


\* C27: create_database creates every table the catalog's queries read, so on the
\* fixture get_book_detail returns, for every existing book id, a record with authors,
\* tags, languages, formats and identifiers, and does not raise.
C27_FixtureHasEveryTable ==
    fpc = "done" =>
        /\ CalibreTables \subseteq db.tables
        /\ (cargs.op = "detail" /\ cargs.id \in BookIds /\ cpc = "done") =>
            /\ cout.kind = "record"
            /\ cout.fields = {AuxQueries[i] : i \in 1..Len(AuxQueries)}

\* On the fixture, get_book_detail of the canary has raised at the languages query.
DetailRaisedOnFixture ==
    /\ fpc = "done"
    /\ cargs.op = "detail"
    /\ cargs.id = CanaryId
    /\ cout = DetailRaised
    /\ clog = <<"book", "authors", "tags", "languages">>

(***************************************************************************)
(* Properties of the search rows                                           *)
(***************************************************************************)

\* C28: every book search_books returns carries in its authors field the names of all
\* the authors linked to it, the names get_books reports for the book, whether it
\* matched through its title or through one of its authors only.
C28_SearchRowsNameEveryAuthor ==
    cargs.op = "search" =>
        \A k \in 1..Len(cpages) :
            /\ cpages[k].fault = "none"
            /\ \A i \in 1..Len(cpages[k].rows) :
                LET row == cpages[k].rows[i] IN
                /\ row.authors = db.books[row.id].authors
                /\ \E j \in 1..Len(GetBooks(db, 1, MaxBooks).rows) :
                    /\ GetBooks(db, 1, MaxBooks).rows[j].id = row.id
                    /\ GetBooks(db, 1, MaxBooks).rows[j].authors = row.authors

\* On a build that takes the query, a book found through one of its two authors only
\* comes back with that author alone.
SearchRowLacksAnAuthor ==
    /\ cargs.op = "search"
    /\ cpages # <<>>
    /\ cpages[1].fault = "none"
    /\ \E i \in 1..Len(cpages[1].rows) :
        LET row == cpages[1].rows[i] IN
        /\ row.authors # db.books[row.id].authors
        /\ row.authors # {}

(***************************************************************************)
(* Properties of the requests needs_sync sends                             *)
(***************************************************************************)

\* C29: needs_sync sends no request when the local file is absent or empty and returns
\* true directly; the HEAD request goes out only after both local checks have passed,
\* and at most once in a call.
C29_HeadOnlyAfterLocalChecks ==
    /\ heads <= 1
    /\ heads = 1 => (lstat.exists /\ lstat.size > 0 /\ npc = "done")
    /\ npc = "head" => (lstat.exists /\ lstat.size > 0 /\ heads = 0)
    /\ (npc = "done" /\ (~lstat.exists \/ lstat.size = 0)) => (heads = 0 /\ nres)

\* needs_sync has answered true for an empty local file without a request.
C29_Witness ==
    /\ npc = "done"
    /\ lstat.exists
    /\ lstat.size = 0
    /\ heads = 0
    /\ nres

(***************************************************************************)
(* Properties of the files a sync leaves                                   *)
(***************************************************************************)

ValidationFaults == {"too_small", "zip", "invalid"}

\* C30: when a sync call running alone has returned successfully, the local file holds
\* exactly the downloaded bytes and the temporary file is gone; when the size or the
\* signature check failed, no temporary file was created.
C30_SuccessLeavesContentAndNoTemp ==
    \A p \in Syncers :
        /\ pc[p] = "done" =>
            /\ LocalExists
            /\ LocalBytes = content[p]
            /\ dir[TempPath] = None
        /\ (pc[p] = "raised" /\ fault[p] \in ValidationFaults) =>
            /\ dir[TempPath] = None
            /\ fd[p] = None

\* A sync has returned with a database longer than one write's worth in place.
C30_Witness ==
    \E p \in Syncers :
        /\ pc[p] = "done"
        /\ Len(content[p]) > ChunkSize
        /\ LocalBytes = content[p]
        /\ dir[TempPath] = None

(***************************************************************************)
(* Properties of the routes                                                *)
(***************************************************************************)

\* C22: /api/download-db sends a body with the SQLite mimetype only when the downloaded
\* content begins with the 16 bytes "SQLite format 3" NUL; for any other content it
\* answers success false with status 500 and sends none of the downloaded bytes.
C22_OnlyDatabasesAreSent ==
    (apc = "done" /\ areq.endpoint = "download-db") =>
        /\ aresp.mimetype = "application/x-sqlite3" =>
            /\ Len(areq.content) >= 16
            /\ SubSeq(areq.content, 1, 16) = SQLITE_MAGIC
            /\ aresp.body = areq.content
        /\ (acalls = 1 /\ areq.storage = "ok"
                /\ (Len(areq.content) < 16 \/ SubSeq(areq.content, 1, 16) # SQLITE_MAGIC)) =>
            /\ aresp.kind = "json"
            /\ aresp.status = 500
            /\ aresp.success = "false"
            /\ aresp.body = <<>>

\* A download that differs from the signature in its sixteenth byte only was refused.
C22_Witness ==
    /\ apc = "done"
    /\ areq.endpoint = "download-db"
    /\ acalls = 1
    /\ areq.storage = "ok"
    /\ areq.content = BadMagic
    /\ aresp.status = 500
    /\ aresp.body = <<>>

\* C23: /api/covers passes at most the first 25 requested paths to the storage backend,
\* every key of the covers map is one of those paths whose result at the same index has
\* a thumbnail, and an empty or missing paths list is answered with success and an
\* empty map without a call to the backend.
C23_CoversOfTheFirstBatch ==
    (apc = "done" /\ areq.endpoint = "covers") =>
        /\ Len(apassed) <= BatchLimit
        /\ Len(apassed) <= areq.npaths
        /\ \A i \in 1..Len(apassed) : apassed[i].book = i
        /\ \A k \in aresp.covers :
            /\ k \in 1..Len(apassed)
            /\ k \in areq.covers
        /\ areq.body \in {"null", "empty"} =>
            /\ acalls = 0
            /\ apassed = <<>>
            /\ aresp.covers = {}
            /\ (arun /\ areq.token /\ GetLibraryPath(areq) # <<>>) =>
                (aresp.status = 200 /\ aresp.success = "true")

\* Of 26 requested books that all have covers, 25 were passed on and came back.
C23_Witness ==
    /\ apc = "done"
    /\ areq.endpoint = "covers"
    /\ areq.npaths = BatchLimit + 1
    /\ Len(apassed) = BatchLimit
    /\ aresp.covers = 1..BatchLimit

\* C24: /api/config reports token_configured true exactly when a DropboxAPI client can
\* be constructed, and false when the access token is missing.
C24_ConfigReportsTheToken ==
    (apc = "done" /\ areq.endpoint = "config" /\ arun) =>
        (aresp.flag = "token_configured" <=> areq.token)

\* C25: with no access token configured, /api/book-content answers 500 "Dropbox access
\* token not configured" before it reads the library path or the file path, and
\* attempts no download.
C25_BookContentWithoutToken ==
    (apc = "done" /\ areq.endpoint = "book-content" /\ arun /\ ~areq.token) =>
        /\ aresp.status = 500
        /\ aresp.flag = "token_not_configured"
        /\ acalls = 0

\* /api/book-content never calls the storage API, with a token or without.
BookContentNeverDownloads ==
    areq.endpoint = "book-content" => acalls = 0

(***************************************************************************)
(* Properties of the download URL                                          *)
(***************************************************************************)

HasQuery(link) == Contains(link, <<"?">>)

\* C26: for every link the constructor accepts, the download URL contains dl=1, joined
\* by "?" to a link without a query string and by "&" to one with a query string, has
\* dl=1 where the link had dl=0, and is left unchanged by a second rewriting.
C26_DownloadUrlHasDl1 ==
    lpc = "url" =>
        /\ Contains(lurl, Dl1)
        /\ ~Contains(lurl, Dl0)
        /\ Contains(shared_link, Dl0) => lurl = StrReplace(shared_link, Dl0, Dl1)
        /\ (~Contains(shared_link, Dl) /\ ~HasQuery(shared_link)) =>
            lurl = shared_link \o <<"?">> \o Dl1
        /\ (~Contains(shared_link, Dl) /\ HasQuery(shared_link)) =>
            lurl = shared_link \o <<"&">> \o Dl1
        /\ GetDownloadUrl(lurl) = lurl

\* Links in which "dl=" stands only in a query string, with the value 0 or 1.
PlainLink(link) ==
    Contains(link, Dl) =>
        /\ HasQuery(link)
        /\ \A i \in 1..(Len(link) - 2) :
            SubSeq(link, i, i + 2) = Dl =>
                /\ i + 3 <= Len(link)
                /\ link[i + 3] \in {"0", "1"}

\* For such links the URL is as described.
PlainLinksGetDl1 ==
    (lpc = "url" /\ PlainLink(shared_link)) =>
        /\ Contains(lurl, Dl1)
        /\ ~Contains(lurl, Dl0)
        /\ GetDownloadUrl(lurl) = lurl

\* A link whose query string has "dl=" without a value was left as it is.
UrlWithoutDl1 ==
    /\ lpc = "url"
    /\ HasQuery(shared_link)
    /\ lurl = shared_link
    /\ ~Contains(lurl, Dl1)

====
